---- MODULE Spec2Model ----
(***************************************************************************)
(* Photobook build pipeline: the planning pass (01_rotate.py) writes the   *)
(* rotation plan, a human may edit it, the build pass (02_pdf.py) decodes  *)
(* it, populates the transform caches and appends one page per photo.      *)
(*                                                                         *)
(* Text (paths, file names, plan lines) is a sequence of one-character     *)
(* strings, so that formatting and parsing are computed, not assumed.      *)
(***************************************************************************)
EXTENDS Integers, Sequences, FiniteSets, TLC

VARIABLES
    input_folders,  \* config["input_folders"]: sequence of [folder, heading, thumb]
    gps_folder,     \* config["gps_image_folder"]: [isdir, names] of the map folder
    gps_match,      \* config["gps_match"]
    output_folder,  \* config["output_folder"]: the folder both passes write under
    images_table,   \* app.py: the rows of table images, in the order of their ids
    geometry,       \* 02_pdf.main: the page geometry (the literals of lines 340-350)
    earlier,        \* what a finished build before this one left: [n, pages, names]
    dirs,           \* source folder path -> set of entry names (what os.listdir sees)
    disk,           \* file path -> attributes of the file behind it
    plan,           \* rotation_plan.txt: [exists, lines]
    all_items,      \* 01_rotate.main: the ordered (heading, path) list it wrote
    edits,          \* number of human edits of the plan since it was written
    pc,             \* position of the build pass
    err,            \* the exception that ended a pass, or NoErr
    rotations,      \* 02_pdf.main: the decoded plan
    chapter,        \* 02_pdf.main: index of the chapter being built
    images_sorted,  \* 02_pdf.main: the sorted photo list of that chapter
    pos,            \* 02_pdf.main: number of photos of the chapter already paged
    pages,          \* the pages added to the document so far
    resized,        \* Resized_Images/: cache file name -> artifact
    map_cache,      \* Map_Cache/: cache file name -> artifact
    pdf_temp,       \* PDF_Temp/: names written by process_image_for_pdf
    output_pdf,     \* Photobook.pdf: [exists, pages]
    ret,            \* the last transform-cache call: arguments, result, effects
    calls           \* number of environment steps taken (bounded)

vars == << input_folders, gps_folder, gps_match, output_folder, images_table, geometry, earlier, dirs, disk, plan, all_items, edits,
           pc, err, rotations, chapter, images_sorted, pos, pages, resized,
           map_cache, pdf_temp, output_pdf, ret, calls >>

NoFile == [exists |-> FALSE, lines |-> << >>]
NoRun == [n |-> 0, pages |-> << >>, names |-> {}]
NoErr == [kind |-> "none", path |-> << >>, plan |-> << >>]
\* a missing EXIF tag / get_exif_date_taken's None
NoDate == 0
\* a tag value strptime rejects / a modification time that cannot be read
Unparsable == -1

\* ---------------------------------------------------------------- bounds
MaxPhotos == 2      \* eligible photos per source folder
MaxChapters == 2    \* chapters in the configuration
MaxEdits == 1       \* human edits of the plan
MaxLines == 2       \* lines of a hand-written plan (codec specification)
MaxCalls == 3       \* environment steps of the cache specification

\* ---------------------------------------------------------------- text
EmptyMap == [x \in {} |-> 0]

Put(m, k, v) == [x \in (DOMAIN m) \cup {k} |-> IF x = k THEN v ELSE m[x]]

\* str.lower() on ASCII letters
LowerCh(c) ==
    CASE c = "A" -> "a"
      [] c = "B" -> "b"
      [] c = "C" -> "c"
      [] c = "D" -> "d"
      [] c = "E" -> "e"
      [] c = "F" -> "f"
      [] c = "G" -> "g"
      [] c = "H" -> "h"
      [] c = "I" -> "i"
      [] c = "J" -> "j"
      [] c = "K" -> "k"
      [] c = "L" -> "l"
      [] c = "M" -> "m"
      [] c = "N" -> "n"
      [] c = "O" -> "o"
      [] c = "P" -> "p"
      [] c = "Q" -> "q"
      [] c = "R" -> "r"
      [] c = "S" -> "s"
      [] c = "T" -> "t"
      [] c = "U" -> "u"
      [] c = "V" -> "v"
      [] c = "W" -> "w"
      [] c = "X" -> "x"
      [] c = "Y" -> "y"
      [] c = "Z" -> "z"
      [] OTHER -> c

lower(s) == [i \in 1..Len(s) |-> LowerCh(s[i])]

IsSpace(c) == c \in {" ", "\t", "\n", "\r"}

RECURSIVE lstrip(_)
lstrip(s) == IF s # << >> /\ IsSpace(Head(s)) THEN lstrip(Tail(s)) ELSE s

RECURSIVE rstrip(_)
rstrip(s) ==
    IF s # << >> /\ IsSpace(s[Len(s)]) THEN rstrip(SubSeq(s, 1, Len(s) - 1)) ELSE s

\* str.strip()
strip(s) == rstrip(lstrip(s))

\* sub in s
Contains(s, sub) ==
    \E i \in 0..(Len(s) - Len(sub)) : SubSeq(s, i + 1, i + Len(sub)) = sub

startswith(s, pre) == Len(s) >= Len(pre) /\ SubSeq(s, 1, Len(pre)) = pre

endswith(s, suf) ==
    Len(s) >= Len(suf) /\ SubSeq(s, Len(s) - Len(suf) + 1, Len(s)) = suf

\* s.find(c) + 1: position of the first c, 0 when there is none
find(s, c) ==
    IF \E i \in 1..Len(s) : s[i] = c
    THEN CHOOSE i \in 1..Len(s) : s[i] = c /\ \A j \in 1..(i - 1) : s[j] # c
    ELSE 0

\* s.rfind(c) + 1
rfind(s, c) ==
    IF \E i \in 1..Len(s) : s[i] = c
    THEN CHOOSE i \in 1..Len(s) : s[i] = c /\ \A j \in (i + 1)..Len(s) : s[j] # c
    ELSE 0

\* s.replace("\\", "/")
replace_backslash(s) == [i \in 1..Len(s) |-> IF s[i] = "\\" THEN "/" ELSE s[i]]

\* os.path.join(folder, fn) (posix)
join(folder, fn) == folder \o << "/" >> \o fn

\* os.path.basename(p) (posix)
basename(p) == SubSeq(p, rfind(p, "/") + 1, Len(p))

\* os.path.splitext(name)[0]: a dot counts only after a non-dot character
splitext0(name) ==
    LET k == rfind(name, ".")
    IN  IF k > 1 /\ \E j \in 1..(k - 1) : name[j] # "." THEN SubSeq(name, 1, k - 1)
        ELSE name

Digits == << "0", "1", "2", "3", "4", "5", "6", "7", "8", "9" >>

IsDigit(c) == \E d \in 1..10 : Digits[d] = c

DigitVal(c) == (CHOOSE d \in 1..10 : Digits[d] = c) - 1

RECURSIVE DigitsVal(_, _)
DigitsVal(s, acc) ==
    IF s = << >> THEN acc ELSE DigitsVal(Tail(s), acc * 10 + DigitVal(Head(s)))

\* int(s): optional surrounding whitespace, optional sign, decimal digits
int(s) ==
    LET t == strip(s)
        signed == t # << >> /\ Head(t) \in {"+", "-"}
        body == IF signed THEN Tail(t) ELSE t
    IN  IF body = << >> \/ \E i \in 1..Len(body) : ~IsDigit(body[i])
        THEN [ok |-> FALSE, val |-> 0]
        ELSE [ok |-> TRUE,
              val |-> IF signed /\ Head(t) = "-" THEN 0 - DigitsVal(body, 0)
                      ELSE DigitsVal(body, 0)]

RECURSIVE str(_)
\* str(n) for n >= 0
str(n) == IF n < 10 THEN << Digits[n + 1] >> ELSE str(n \div 10) \o << Digits[(n % 10) + 1] >>

\* ---------------------------------------------------------------- rotation plan
RECURSIVE parse_lines_lenient(_, _)
\* a decoder that drops an entry line it cannot accept and reads on
parse_lines_lenient(lines, mapping) ==
    IF lines = << >> THEN [ok |-> TRUE, mapping |-> mapping]
    ELSE
        LET s == strip(Head(lines))
            k == find(s, "|")
            deg == int(strip(SubSeq(s, k + 1, Len(s))))
        IN  IF s = << >> \/ Head(s) = "#" \/ k = 0 \/ ~deg.ok
            THEN parse_lines_lenient(Tail(lines), mapping)
            ELSE IF deg.val \notin {0, 90, 180, 270}
            THEN parse_lines_lenient(Tail(lines), mapping)
            ELSE parse_lines_lenient(Tail(lines),
                     Put(mapping, replace_backslash(strip(SubSeq(s, 1, k - 1))), deg.val))

parse_rotation_plan_lenient(lines) == parse_lines_lenient(lines, EmptyMap)

RECURSIVE parse_lines_strict(_, _)
\* a decoder that rejects the file at a line that is neither blank, comment nor entry
parse_lines_strict(lines, mapping) ==
    IF lines = << >> THEN [ok |-> TRUE, mapping |-> mapping]
    ELSE
        LET s == strip(Head(lines))
            k == find(s, "|")
            deg == int(strip(SubSeq(s, k + 1, Len(s))))
        IN  IF s = << >> \/ Head(s) = "#" THEN parse_lines_strict(Tail(lines), mapping)
            ELSE IF k = 0 \/ ~deg.ok \/ deg.val \notin {0, 90, 180, 270}
            THEN [ok |-> FALSE, mapping |-> EmptyMap]
            ELSE parse_lines_strict(Tail(lines),
                     Put(mapping, replace_backslash(strip(SubSeq(s, 1, k - 1))), deg.val))

parse_rotation_plan_strict(lines) == parse_lines_strict(lines, EmptyMap)

RECURSIVE parse_lines(_, _)
\* the loop of parse_rotation_plan over the remaining lines
parse_lines(lines, mapping) ==
    IF lines = << >> THEN [ok |-> TRUE, mapping |-> mapping]
    ELSE
        LET s == strip(Head(lines))
        IN  IF s = << >> \/ Head(s) = "#" THEN parse_lines(Tail(lines), mapping)
            ELSE IF find(s, "|") = 0 THEN parse_lines(Tail(lines), mapping)
            ELSE
                LET k == find(s, "|")
                    path_part == strip(SubSeq(s, 1, k - 1))
                    deg_part == strip(SubSeq(s, k + 1, Len(s)))
                    deg == int(deg_part)
                IN  IF ~deg.ok THEN [ok |-> FALSE, mapping |-> EmptyMap]
                    ELSE IF deg.val \notin {0, 90, 180, 270}
                    THEN [ok |-> FALSE, mapping |-> EmptyMap]
                    ELSE parse_lines(Tail(lines),
                                     Put(mapping, replace_backslash(path_part), deg.val))

parse_rotation_plan(lines) == parse_lines(lines, EmptyMap)

\* ---------------------------------------------------------------- files
\* os.path.isfile(fp)
isfile(fp) == fp \in DOMAIN disk /\ disk[fp].isfile

\* datetime.strptime(value, "%Y:%m:%d %H:%M:%S") succeeds: a tag value is
\* NoDate (absent), Unparsable, or a timestamp (a positive number)
strptime_ok(value) == value > 0

\* a reading of DateTimeOriginal alone
get_exif_date_original_only(file_path) ==
    LET f == disk[file_path]
    IN  IF file_path \notin DOMAIN disk \/ ~f.readable THEN NoDate
        ELSE IF strptime_ok(f.exif[1]) THEN f.exif[1]
        ELSE NoDate

\* 02_pdf.get_exif_date_taken: the first of DateTimeOriginal, DateTimeDigitized,
\* DateTime that is present and parses; None when the file does not decode
get_exif_date_taken(file_path) ==
    LET f == disk[file_path]
    IN  IF file_path \notin DOMAIN disk \/ ~f.readable THEN NoDate
        ELSE IF \E k \in 1..3 : strptime_ok(f.exif[k])
        THEN f.exif[CHOOSE k \in 1..3 :
                        strptime_ok(f.exif[k]) /\ \A j \in 1..(k - 1) : ~strptime_ok(f.exif[j])]
        ELSE NoDate

\* 02_pdf.get_image_sort_key: a datetime, or the lower-cased basename when the
\* modification time cannot be read
get_image_sort_key(file_path) ==
    LET exif_date == get_exif_date_taken(file_path)
    IN  IF exif_date # NoDate THEN [t |-> "datetime", d |-> exif_date, s |-> << >>]
        ELSE IF file_path \in DOMAIN disk /\ disk[file_path].mtime > 0
        THEN [t |-> "datetime", d |-> disk[file_path].mtime, s |-> << >>]
        ELSE [t |-> "str", d |-> 0, s |-> lower(basename(file_path))]

\* 01_rotate.get_exif_date_taken (its own copy of the function)
rotate_get_exif_date_taken(file_path) ==
    LET f == disk[file_path]
    IN  IF file_path \notin DOMAIN disk \/ ~f.readable THEN NoDate
        ELSE IF \E k \in 1..3 : strptime_ok(f.exif[k])
        THEN f.exif[CHOOSE k \in 1..3 :
                        strptime_ok(f.exif[k]) /\ \A j \in 1..(k - 1) : ~strptime_ok(f.exif[j])]
        ELSE NoDate

\* 01_rotate.get_image_sort_key (its own copy of the function)
rotate_get_image_sort_key(file_path) ==
    LET exif_date == rotate_get_exif_date_taken(file_path)
    IN  IF exif_date # NoDate THEN [t |-> "datetime", d |-> exif_date, s |-> << >>]
        ELSE IF file_path \in DOMAIN disk /\ disk[file_path].mtime > 0
        THEN [t |-> "datetime", d |-> disk[file_path].mtime, s |-> << >>]
        ELSE [t |-> "str", d |-> 0, s |-> lower(basename(file_path))]

\* ord(c) of the characters the inputs use
Ord(c) ==
    CASE c = " " -> 32 [] c = "#" -> 35 [] c = "." -> 46 [] c = "/" -> 47
      [] c = "A" -> 65 [] c = "G" -> 71 [] c = "J" -> 74 [] c = "P" -> 80
      [] c = "\\" -> 92 [] c = "_" -> 95 [] c = "|" -> 124
      [] IsDigit(c) -> 48 + DigitVal(c)
      [] c = "a" -> 97 [] c = "b" -> 98 [] c = "c" -> 99 [] c = "d" -> 100
      [] c = "e" -> 101 [] c = "f" -> 102 [] c = "g" -> 103 [] c = "j" -> 106
      [] c = "m" -> 109 [] c = "n" -> 110 [] c = "o" -> 111 [] c = "p" -> 112
      [] c = "q" -> 113 [] c = "r" -> 114 [] c = "s" -> 115 [] c = "t" -> 116
      [] c = "u" -> 117 [] c = "x" -> 120 [] c = "z" -> 122
      [] OTHER -> 63

RECURSIVE StrLess(_, _)
\* a < b on str
StrLess(a, b) ==
    IF b = << >> THEN FALSE
    ELSE IF a = << >> THEN TRUE
    ELSE IF Head(a) # Head(b) THEN Ord(Head(a)) < Ord(Head(b))
    ELSE StrLess(Tail(a), Tail(b))

\* the key of sorted(): (get_image_sort_key(p), os.path.basename(p).lower())
SortKey(p) == << get_image_sort_key(p), lower(basename(p)) >>

RotateSortKey(p) == << rotate_get_image_sort_key(p), lower(basename(p)) >>

\* ka < kb on the key tuples (both first components of one type)
KeyLess(ka, kb) ==
    IF ka[1] # kb[1]
    THEN IF ka[1].t = "str" THEN StrLess(ka[1].s, kb[1].s) ELSE ka[1].d < kb[1].d
    ELSE StrLess(ka[2], kb[2])

\* comparing a datetime with a str raises TypeError; every sort of two or more
\* keys of both types compares such a pair
Comparable(keyed) == \A i, j \in DOMAIN keyed : keyed[i].k[1].t = keyed[j].k[1].t

RECURSIVE insort(_, _)
\* x placed behind every element that is not greater (the sort is stable);
\* elements are [k |-> key, p |-> path]
insort(done, x) ==
    IF done = << >> THEN << x >>
    ELSE IF KeyLess(x.k, Head(done).k) THEN << x >> \o done
    ELSE << Head(done) >> \o insort(Tail(done), x)

RECURSIVE sort_keyed(_)
sort_keyed(seq) ==
    IF seq = << >> THEN << >>
    ELSE insort(sort_keyed(SubSeq(seq, 1, Len(seq) - 1)), seq[Len(seq)])

\* the images as os.listdir gave them, not sorted at all
sorted_as_listed(images) == [ok |-> TRUE, list |-> images]

\* sorted(images, key=...): the sorted list, or TypeError
sorted(images) ==
    LET keyed == [i \in 1..Len(images) |-> [k |-> SortKey(images[i]), p |-> images[i]]]
        out == sort_keyed(keyed)
    IN  IF Comparable(keyed)
        THEN [ok |-> TRUE, list |-> [i \in 1..Len(images) |-> out[i].p]]
        ELSE [ok |-> FALSE, list |-> << >>]

\* 01_rotate.main's sorted(...) (the same expression over its own key function)
rotate_sorted(images) ==
    LET keyed == [i \in 1..Len(images) |-> [k |-> RotateSortKey(images[i]), p |-> images[i]]]
        out == sort_keyed(keyed)
    IN  IF Comparable(keyed)
        THEN [ok |-> TRUE, list |-> [i \in 1..Len(images) |-> out[i].p]]
        ELSE [ok |-> FALSE, list |-> << >>]

Jpg == << ".", "j", "p", "g" >>
Jpeg == << ".", "j", "p", "e", "g" >>
Png == << ".", "p", "n", "g" >>
VALID_EXTS == {Jpg, Jpeg, Png}
Processed == << "_", "p", "r", "o", "c", "e", "s", "s", "e", "d" >>
Pdfprep == << "p", "d", "f", "p", "r", "e", "p", "_", "_" >>

\* a filter that takes JPEG files only
Eligible_jpeg_only(folder_path, fn) ==
    /\ isfile(join(folder_path, fn))
    /\ \E e \in {Jpg, Jpeg} : endswith(lower(fn), e)
    /\ ~Contains(lower(fn), Processed)
    /\ ~startswith(lower(fn), Pdfprep)

\* the filter of 02_pdf.collect_images on one directory entry
Eligible(folder_path, fn) ==
    /\ isfile(join(folder_path, fn))
    /\ \E e \in VALID_EXTS : endswith(lower(fn), e)
    /\ ~Contains(lower(fn), Processed)
    /\ ~startswith(lower(fn), Pdfprep)

RECURSIVE collect_images(_, _)
\* 02_pdf.collect_images over os.listdir's entries in the order it gave them
collect_images(folder_path, listing) ==
    IF listing = << >> THEN << >>
    ELSE (IF Eligible(folder_path, Head(listing))
          THEN << join(folder_path, Head(listing)) >> ELSE << >>)
         \o collect_images(folder_path, Tail(listing))

RECURSIVE rotate_collect_images(_, _)
\* 01_rotate.collect_images (its own copy of the function)
rotate_collect_images(folder_path, listing) ==
    IF listing = << >> THEN << >>
    ELSE LET fn == Head(listing)
             fp == join(folder_path, fn)
             fn_l == lower(fn)
             keep == /\ isfile(fp)
                     /\ \E e \in VALID_EXTS : endswith(fn_l, e)
                     /\ ~Contains(fn_l, Processed)
                     /\ ~startswith(fn_l, Pdfprep)
         IN  (IF keep THEN << fp >> ELSE << >>)
             \o rotate_collect_images(folder_path, Tail(listing))

\* the orders in which os.listdir may return a directory's entries
Listings(names) ==
    {l \in [1..Cardinality(names) -> names] : \A n \in names : \E i \in DOMAIN l : l[i] = n}

\* ---------------------------------------------------------------- images
PHOTO_TARGET_DPI == 200
MAP_TARGET_DPI == 170
PHOTO_JPEG_QUALITY == 72
MAP_JPEG_QUALITY == 70

Abs(n) == IF n < 0 THEN 0 - n ELSE n

Max(a, b) == IF a >= b THEN a ELSE b

\* int(round(hundredths / 100 * dpi)) for the inch sizes written with two decimals
RoundInches(hundredths, dpi) == (hundredths * dpi + 50) \div 100

\* ImageOps.exif_transpose: orientations 5..8 turn the image by a quarter
exif_transpose(f) ==
    IF f.orient \in 5..8 THEN [w |-> f.h, h |-> f.w] ELSE [w |-> f.w, h |-> f.h]

\* a rotation that keeps the canvas as it was
rotate_no_expand(im, deg) == im

\* img.rotate(-deg, expand=True) when deg % 360 != 0, on a multiple of 90
rotate(im, deg) ==
    IF deg % 360 = 0 THEN im
    ELSE IF deg % 180 = 90 THEN [w |-> im.h, h |-> im.w]
    ELSE im

\* Image.thumbnail: round_aspect(number, key) for the width, number = y * aspect
round_aspect_x(y, w, h) ==
    LET lo == (y * w) \div h
        hi == IF (y * w) % h = 0 THEN lo ELSE lo + 1
    IN  Max(IF Abs(w * y - lo * h) <= Abs(w * y - hi * h) THEN lo ELSE hi, 1)

\* Image.thumbnail: round_aspect(number, key) for the height, number = x / aspect
round_aspect_y(x, w, h) ==
    LET lo == (x * h) \div w
        hi == IF (x * h) % w = 0 THEN lo ELSE lo + 1
    IN  Max(IF lo = 0 \/ Abs(w * lo - x * h) * hi <= Abs(w * hi - x * h) * lo
            THEN lo ELSE hi, 1)

\* a resize that fills the envelope, enlarging a small image
thumbnail_fill(im, max_w, max_h) ==
    IF max_w * im.h >= im.w * max_h
    THEN [w |-> round_aspect_x(max_h, im.w, im.h), h |-> max_h]
    ELSE [w |-> max_w, h |-> round_aspect_y(max_w, im.w, im.h)]

\* img.thumbnail((max_w, max_h)): the size after it (never enlarges)
thumbnail(im, max_w, max_h) ==
    IF max_w >= im.w /\ max_h >= im.h THEN im
    ELSE IF max_w * im.h >= im.w * max_h
    THEN [w |-> round_aspect_x(max_h, im.w, im.h), h |-> max_h]
    ELSE [w |-> max_w, h |-> round_aspect_y(max_w, im.w, im.h)]

Rot == << "_", "_", "r", "o", "t" >>
MapcacheRot == << "_", "_", "m", "a", "p", "c", "a", "c", "h", "e", "_", "r", "o", "t" >>
Q == << "_", "_", "q" >>
Dpi == << "_", "_", "d", "p", "i" >>

\* the out_path of process_photo_to_cache inside Resized_Images/
photo_out_path(src_path, rotation_deg_cw) ==
    splitext0(basename(src_path)) \o Rot \o str(rotation_deg_cw)
        \o Q \o str(PHOTO_JPEG_QUALITY) \o Dpi \o str(PHOTO_TARGET_DPI) \o Jpg

\* the out_path of process_map_to_cache inside Map_Cache/
map_out_path(map_path, rotate_deg_cw) ==
    splitext0(basename(map_path)) \o MapcacheRot \o str(rotate_deg_cw)
        \o Q \o str(MAP_JPEG_QUALITY) \o Dpi \o str(MAP_TARGET_DPI) \o Jpg

NoRet == [n |-> 0, kind |-> "none", ok |-> TRUE, src |-> << >>, deg |-> 0, path |-> << >>,
          w |-> 0, h |-> 0, opened |-> FALSE, wrote |-> FALSE, src_w |-> 0, src_h |-> 0]

\* a cache function that never looks for the derived file and derives every time
to_cache_always_derive(kind, src_path, deg, out_path, max_w, max_h, cache) ==
    IF src_path \notin DOMAIN disk \/ ~disk[src_path].isfile \/ ~disk[src_path].readable
    THEN [ret |-> [n |-> 0, kind |-> kind, ok |-> FALSE, src |-> src_path, deg |-> deg,
                   path |-> out_path, w |-> 0, h |-> 0,
                   opened |-> TRUE, wrote |-> FALSE, src_w |-> 0, src_h |-> 0],
          cache |-> cache]
    ELSE LET turned == rotate(exif_transpose(disk[src_path]), deg)
             img == IF max_w >= turned.w /\ max_h >= turned.h THEN turned
                    ELSE IF max_w * turned.h >= turned.w * max_h
                    THEN [w |-> round_aspect_x(max_h, turned.w, turned.h), h |-> max_h]
                    ELSE [w |-> max_w, h |-> round_aspect_y(max_w, turned.w, turned.h)]
         IN  [ret |-> [n |-> 0, kind |-> kind, ok |-> TRUE, src |-> src_path, deg |-> deg,
                       path |-> out_path, w |-> img.w, h |-> img.h,
                       opened |-> TRUE, wrote |-> TRUE, src_w |-> turned.w, src_h |-> turned.h],
              cache |-> Put(cache, out_path,
                            [w |-> img.w, h |-> img.h, src |-> src_path, deg |-> deg,
                             version |-> disk[src_path].version])]

\* a cache function that stores a 1 x 1 placeholder for a source it cannot read
to_cache_placeholder(kind, src_path, deg, out_path, max_w, max_h, cache) ==
    IF src_path \in DOMAIN disk /\ ~disk[src_path].readable
    THEN [ret |-> [n |-> 0, kind |-> kind, ok |-> TRUE, src |-> src_path, deg |-> deg,
                   path |-> out_path, w |-> 1, h |-> 1,
                   opened |-> TRUE, wrote |-> TRUE, src_w |-> 0, src_h |-> 0],
          cache |-> Put(cache, out_path,
                        [w |-> 1, h |-> 1, src |-> src_path, deg |-> deg, version |-> 0])]
    ELSE to_cache_always_derive(kind, src_path, deg, out_path, max_w, max_h, cache)

\* the common body of the two cache functions: reuse the file named out_path when
\* it exists, else derive it from the source; cache is the directory before the
\* call, the result carries what the call returned and did
to_cache(kind, src_path, deg, out_path, max_w, max_h, cache) ==
    IF out_path \in DOMAIN cache
    THEN [ret |-> [n |-> 0, kind |-> kind, ok |-> TRUE, src |-> src_path, deg |-> deg,
                   path |-> out_path, w |-> cache[out_path].w, h |-> cache[out_path].h,
                   opened |-> FALSE, wrote |-> FALSE, src_w |-> 0, src_h |-> 0],
          cache |-> cache]
    ELSE IF src_path \notin DOMAIN disk \/ ~disk[src_path].isfile \/ ~disk[src_path].readable
    THEN [ret |-> [n |-> 0, kind |-> kind, ok |-> FALSE, src |-> src_path, deg |-> deg,
                   path |-> out_path, w |-> 0, h |-> 0,
                   opened |-> TRUE, wrote |-> FALSE, src_w |-> 0, src_h |-> 0],
          cache |-> cache]
    ELSE LET turned == rotate(exif_transpose(disk[src_path]), deg)
             img == thumbnail(turned, max_w, max_h)
         IN  [ret |-> [n |-> 0, kind |-> kind, ok |-> TRUE, src |-> src_path, deg |-> deg,
                       path |-> out_path, w |-> img.w, h |-> img.h,
                       opened |-> TRUE, wrote |-> TRUE, src_w |-> turned.w, src_h |-> turned.h],
              cache |-> Put(cache, out_path,
                            [w |-> img.w, h |-> img.h, src |-> src_path, deg |-> deg,
                             version |-> disk[src_path].version])]

process_photo_to_cache(src_path, rotation_deg_cw, cache) ==
    to_cache("photo", src_path, rotation_deg_cw,
             photo_out_path(src_path, rotation_deg_cw),
             RoundInches(827, PHOTO_TARGET_DPI), RoundInches(1169, PHOTO_TARGET_DPI), cache)

process_map_to_cache(map_path, rotate_deg_cw, cache) ==
    to_cache("map", map_path, rotate_deg_cw,
             map_out_path(map_path, rotate_deg_cw),
             RoundInches(827, MAP_TARGET_DPI), RoundInches(220, MAP_TARGET_DPI), cache)

\* ---------------------------------------------------------------- map lookup
NoMatch == [found |-> FALSE, fn |-> << >>]

MapToken == << "_", "_", "m", "a", "p", "_" >>

IsMapImage(fn) == \E e \in {Png, Jpg, Jpeg} : endswith(lower(fn), e)

RECURSIVE first_pass(_, _, _)
\* the first loop of find_corresponding_gps_image
first_pass(listing, stem, mode) ==
    IF listing = << >> THEN NoMatch
    ELSE LET fn == Head(listing)
         IN  IF ~IsMapImage(fn) THEN first_pass(Tail(listing), stem, mode)
             ELSE IF mode = "exact" /\ lower(splitext0(fn)) = stem
             THEN [found |-> TRUE, fn |-> fn]
             ELSE IF Contains(lower(fn), << "_", "_" >> \o stem \o MapToken)
             THEN [found |-> TRUE, fn |-> fn]
             ELSE first_pass(Tail(listing), stem, mode)

RECURSIVE second_pass(_, _)
\* the second loop: the stem anywhere in the name
second_pass(listing, stem) ==
    IF listing = << >> THEN NoMatch
    ELSE LET fn == Head(listing)
         IN  IF ~IsMapImage(fn) THEN second_pass(Tail(listing), stem)
             ELSE IF Contains(lower(fn), stem) THEN [found |-> TRUE, fn |-> fn]
             ELSE second_pass(Tail(listing), stem)

\* a lookup without the second loop: the token or nothing
find_token_only(photo_path, folder, listing1, listing2, mode) ==
    IF ~folder.isdir THEN NoMatch
    ELSE first_pass(listing1, lower(splitext0(basename(photo_path))), mode)

\* a lookup that knows the loose containment only
find_loose_only(photo_path, folder, listing1, listing2, mode) ==
    IF ~folder.isdir THEN NoMatch
    ELSE second_pass(listing2, lower(splitext0(basename(photo_path))))

\* find_corresponding_gps_image; listing1 and listing2 are what the two
\* os.listdir calls returned
find_corresponding_gps_image(photo_path, folder, listing1, listing2, mode) ==
    IF ~folder.isdir THEN NoMatch
    ELSE LET stem == lower(splitext0(basename(photo_path)))
             first == first_pass(listing1, stem, mode)
         IN  IF first.found THEN first
             ELSE IF mode # "exact" THEN second_pass(listing2, stem)
             ELSE NoMatch

\* ---------------------------------------------------------------- page geometry
page_w == 210
page_h == 297
margin_x == 10
margin_y == 12
gutter_y == 6
map_max_h == 60

\* the geometry 02_pdf.main is written with
PageGeometry ==
    [page_w |-> page_w, page_h |-> page_h, margin_x |-> margin_x, margin_y |-> margin_y,
     gutter_y |-> gutter_y, map_max_h |-> map_max_h]

\* ---------------------------------------------------------------- inputs
a_jpg == << "a", ".", "j", "p", "g" >>
A_JPG == << "A", ".", "J", "P", "G" >>
b_png == << "b", ".", "p", "n", "g" >>
a_png == << "a", ".", "p", "n", "g" >>
c_pipe_jpg == << "c", "|", ".", "j", "p", "g" >>
u_jpg == << "u", ".", "j", "p", "g" >>
z_jpeg == << "z", ".", "j", "p", "e", "g" >>
x_processed_jpg == << "x" >> \o Processed \o Jpg
pdfprep_x_jpg == Pdfprep \o << "x" >> \o Jpg
n_txt == << "n", ".", "t", "x", "t" >>
d_jpg == << "d", ".", "j", "p", "g" >>
map_a_png == << "t", "_", "_", "a" >> \o MapToken \o << "8", "x", "2" >> \o Png
xb_jpg == << "x", "b", ".", "j", "p", "g" >>
map_b_png == << "t", "_", "_", "b" >> \o MapToken \o << "8", "x", "2" >> \o Png

FolderP == << "p" >>
FolderHashQ == << "#", "q" >>
FolderG == << "g" >>
FolderOut == << "o" >>

Image(exif, mtime, w, h, orient) ==
    [isfile |-> TRUE, readable |-> TRUE, exif |-> exif, mtime |-> mtime,
     w |-> w, h |-> h, orient |-> orient, version |-> 1]

\* what lies behind each entry name of the input folders
Attr(fn) ==
    CASE fn = a_jpg -> Image(<< NoDate, NoDate, NoDate >>, 2, 4000, 3000, 1)
      [] fn = A_JPG -> Image(<< NoDate, NoDate, NoDate >>, 2, 1200, 1600, 1)
      [] fn = b_png -> Image(<< 1, NoDate, NoDate >>, 9, 800, 800, 1)
      [] fn = a_png -> Image(<< NoDate, NoDate, NoDate >>, 5, 2000, 1000, 1)
      [] fn = c_pipe_jpg -> Image(<< Unparsable, NoDate, 3 >>, 1, 3000, 4000, 6)
      [] fn = u_jpg ->
            [Image(<< NoDate, NoDate, NoDate >>, 4, 0, 0, 1) EXCEPT !.readable = FALSE]
      [] fn = z_jpeg -> Image(<< NoDate, NoDate, NoDate >>, Unparsable, 100, 5000, 1)
      [] fn = d_jpg ->
            [Image(<< NoDate, NoDate, NoDate >>, 1, 0, 0, 1) EXCEPT !.isfile = FALSE]
      [] fn = map_a_png -> Image(<< NoDate, NoDate, NoDate >>, 1, 600, 2000, 1)
      [] fn = xb_jpg -> Image(<< NoDate, NoDate, NoDate >>, 1, 300, 100, 1)
      [] fn = map_b_png ->
            [Image(<< NoDate, NoDate, NoDate >>, 1, 0, 0, 1) EXCEPT !.readable = FALSE]
      [] OTHER -> Image(<< NoDate, NoDate, NoDate >>, 1, 640, 480, 1)

PhotoPool == {a_jpg, A_JPG, b_png, c_pipe_jpg, u_jpg, z_jpeg}
HashQPool == {a_jpg}
MapPool == {map_a_png, xb_jpg}

\* a folder's photos: at most MaxPhotos of the pool
PhotoSets(photos) == {S \in SUBSET photos : Cardinality(S) <= MaxPhotos}

Chapter(folder, heading, thumb) == [folder |-> folder, heading |-> heading, thumb |-> thumb]

ChapterPool == {Chapter(FolderP, << "P" >>, a_jpg), Chapter(FolderHashQ, << "Q" >>, << >>)}

Configs == UNION {[1..n -> ChapterPool] : n \in 1..MaxChapters}

\* what else the run finds: another entry in folder p, the map folder, the match mode
Surrounding(other, isdir, mode) ==
    [other |-> other, isdir |-> isdir, names |-> IF isdir THEN MapPool ELSE {}, mode |-> mode]

Surroundings ==
    {Surrounding({}, FALSE, "stem_contains"),
     Surrounding({n_txt}, TRUE, "stem_contains"),
     Surrounding({d_jpg}, TRUE, "exact"),
     Surrounding({x_processed_jpg}, FALSE, "stem_contains"),
     Surrounding({pdfprep_x_jpg}, TRUE, "stem_contains"),
     [Surrounding({}, TRUE, "stem_contains") EXCEPT !.names = {map_b_png, xb_jpg}]}

Uses(cfg, folder) == \E i \in DOMAIN cfg : cfg[i].folder = folder

\* the files behind the entries of the folders
DiskOf(ds, gps) ==
    LET here == UNION {{join(d, fn) : fn \in ds[d]} : d \in DOMAIN ds}
        maps == {join(FolderG, fn) : fn \in gps.names}
    IN  [q \in here \cup maps |-> Attr(basename(q))]

\* ---------------------------------------------------------------- planning pass
\* the suggestion of the function's docstring: landscape -> 90
suggested_rotation_90(image_path) ==
    IF image_path \notin DOMAIN disk \/ ~disk[image_path].readable THEN 0
    ELSE LET im == exif_transpose(disk[image_path])
         IN  IF im.h >= im.w THEN 0 ELSE 90

\* 01_rotate.suggested_rotation_degrees
suggested_rotation_degrees(image_path) ==
    IF image_path \notin DOMAIN disk \/ ~disk[image_path].readable THEN 0
    ELSE LET im == exif_transpose(disk[image_path])
         IN  IF im.h >= im.w THEN 0 ELSE 270

\* the four comment lines and the blank line 01_rotate.main starts the plan with
\* (the comments' wording shortened)
Header == << << "#", " ", "v", "1" >>, << "#", " ", "f" >>, << "#", " ", "a" >>,
             << "#", " ", "e" >>, << >> >>

ChapterComment == << "#", " ", "C", ":", " " >>

Separator == << " ", "|", " " >>

\* what sorted(collect_images(folder)) may give in 01_rotate: one result for
\* every order in which os.listdir may return the folder's entries
rotate_images_sorted(folder) ==
    {rotate_sorted(rotate_collect_images(folder, l)) : l \in Listings(dirs[folder])}

RECURSIVE gather(_, _)
\* 01_rotate.main's first loop from chapter i on: the lists all_items may become
\* (the folder of every chapter listed on its own), or TypeError
gather(cfg, i) ==
    IF i > Len(cfg) THEN {[ok |-> TRUE, items |-> << >>]}
    ELSE {IF ~srt.ok \/ ~rest.ok THEN [ok |-> FALSE, items |-> << >>]
          ELSE [ok |-> TRUE,
                items |-> [j \in 1..Len(srt.list) |->
                              [heading |-> cfg[i].heading, path |-> srt.list[j]]]
                          \o rest.items] :
             srt \in rotate_images_sorted(cfg[i].folder), rest \in gather(cfg, i + 1)}

RECURSIVE plan_lines(_, _, _)
\* 01_rotate.main's second loop: the chapter comments and the entry lines
plan_lines(items, started, current_heading) ==
    IF items = << >> THEN << >>
    ELSE LET it == Head(items)
             rel_path == replace_backslash(it.path)
             deg == suggested_rotation_degrees(it.path)
         IN  (IF ~started \/ it.heading # current_heading
              THEN << ChapterComment \o it.heading >> ELSE << >>)
             \o << rel_path \o Separator \o str(deg) >>
             \o plan_lines(Tail(items), TRUE, it.heading)

\* 01_rotate.main
RotateMain ==
    /\ pc = "idle"
    /\ ~plan.exists
    /\ \E g \in gather(input_folders, 1) :
              IF g.ok
              THEN /\ plan' = [exists |-> TRUE,
                               lines |-> Header \o plan_lines(g.items, FALSE, << >>)]
                   /\ all_items' = g.items
                   /\ err' = NoErr
              ELSE /\ err' = [kind |-> "TypeError", path |-> << >>, plan |-> << >>]
                   /\ UNCHANGED << plan, all_items >>
    /\ UNCHANGED << input_folders, gps_folder, gps_match, output_folder, images_table, geometry, earlier, dirs, disk, edits, pc, rotations,
                    chapter, images_sorted, pos, pages, resized, map_cache, pdf_temp,
                    output_pdf, ret, calls >>

EditDegrees == {<< "9", "0" >>, << "4", "5" >>}

IsEntryLine(line) ==
    LET t == strip(line) IN t # << >> /\ Head(t) # "#" /\ find(t, "|") > 0

\* the human edit between the passes: an entry's degrees rewritten, or an entry removed
EditPlan ==
    /\ pc = "idle"
    /\ plan.exists
    /\ edits < MaxEdits
    /\ \E k \in 1..Len(plan.lines) :
          /\ IsEntryLine(plan.lines[k])
          /\ \/ plan' = [plan EXCEPT !.lines =
                            SubSeq(plan.lines, 1, k - 1) \o SubSeq(plan.lines, k + 1, Len(plan.lines))]
             \/ \E d \in EditDegrees :
                   plan' = [plan EXCEPT !.lines[k] =
                               SubSeq(plan.lines[k], 1, rfind(plan.lines[k], "|")) \o << " " >> \o d]
    /\ edits' = edits + 1
    /\ UNCHANGED << input_folders, gps_folder, gps_match, output_folder, images_table, geometry, earlier, dirs, disk, all_items, pc, err,
                    rotations, chapter, images_sorted, pos, pages, resized, map_cache,
                    pdf_temp, output_pdf, ret, calls >>

\* another human edit between the passes: the bar of an entry line deleted, path
\* and degrees left standing
EditDropSeparator ==
    /\ pc = "idle"
    /\ plan.exists
    /\ edits < MaxEdits
    /\ \E k \in 1..Len(plan.lines) :
          /\ IsEntryLine(plan.lines[k])
          /\ plan' = [plan EXCEPT !.lines[k] =
                         SubSeq(plan.lines[k], 1, rfind(plan.lines[k], "|") - 1)
                            \o SubSeq(plan.lines[k], rfind(plan.lines[k], "|") + 1,
                                      Len(plan.lines[k]))]
    /\ edits' = edits + 1
    /\ UNCHANGED << input_folders, gps_folder, gps_match, output_folder, images_table, geometry, earlier, dirs, disk,
                    all_items, pc, err, rotations, chapter, images_sorted, pos, pages,
                    resized, map_cache, pdf_temp, output_pdf, ret, calls >>

\* ---------------------------------------------------------------- millimetres
\* the float arithmetic of the layout, exact: a number is n/d in lowest terms, d > 0
RECURSIVE Gcd(_, _)
Gcd(a, b) == IF b = 0 THEN a ELSE Gcd(b, a % b)

Frac(n, d) == LET g == Gcd(Abs(n), d) IN [n |-> n \div g, d |-> d \div g]

\* a * b
QMul(a, b) ==
    LET g1 == Gcd(Abs(a.n), b.d)
        g2 == Gcd(Abs(b.n), a.d)
    IN  [n |-> (a.n \div g1) * (b.n \div g2), d |-> (a.d \div g2) * (b.d \div g1)]

\* a / b for b > 0
QDiv(a, b) == QMul(a, [n |-> b.d, d |-> b.n])

\* a + b
QAdd(a, b) ==
    LET g == Gcd(a.d, b.d)
    IN  Frac(a.n * (b.d \div g) + b.n * (a.d \div g), (a.d \div g) * b.d)

\* a - b
QSub(a, b) == QAdd(a, [n |-> 0 - b.n, d |-> b.d])

\* a < b
QLess(a, b) ==
    LET g == Gcd(a.d, b.d) IN a.n * (b.d \div g) < b.n * (a.d \div g)

\* ---------------------------------------------------------------- build pass
usable_w == geometry.page_w - 2 * geometry.margin_x
usable_h == geometry.page_h - 2 * geometry.margin_y
map_area_h == geometry.map_max_h
photo_area_h == usable_h - map_area_h - geometry.gutter_y

\* a start that takes the plan for granted
plan_assumed == FALSE

\* not os.path.isfile(plan_path)
plan_missing == ~plan.exists

\* a layout check that accepts every geometry
layout_never_tight == FALSE

\* the layout check: photo_area_h <= 50
layout_too_tight == photo_area_h <= 50

\* a placement that fills the band on both axes
place_stretch(px_w, px_h, band_h, band_top) ==
    [x |-> Frac(geometry.margin_x, 1), y |-> Frac(band_top, 1),
     w |-> Frac(usable_w, 1), h |-> Frac(band_h, 1), scale |-> Frac(1, 1)]

\* a placement at the top left corner of the band
place_top_left(px_w, px_h, band_h, band_top) ==
    LET w_mm == Frac(254 * px_w, 3000)
        h_mm == Frac(254 * px_h, 3000)
        by_w == QDiv(Frac(usable_w, 1), w_mm)
        by_h == QDiv(Frac(band_h, 1), h_mm)
        scale == IF QLess(by_h, by_w) THEN by_h ELSE by_w
    IN  [x |-> Frac(geometry.margin_x, 1), y |-> Frac(band_top, 1),
         w |-> QMul(w_mm, scale), h |-> QMul(h_mm, scale), scale |-> scale]

\* a placement that never enlarges: the scale capped at 1
place_capped(px_w, px_h, band_h, band_top) ==
    LET w_mm == Frac(254 * px_w, 3000)
        h_mm == Frac(254 * px_h, 3000)
        by_w == QDiv(Frac(usable_w, 1), w_mm)
        by_h == QDiv(Frac(band_h, 1), h_mm)
        fit == IF QLess(by_h, by_w) THEN by_h ELSE by_w
        scale == IF QLess(Frac(1, 1), fit) THEN Frac(1, 1) ELSE fit
        w == QMul(w_mm, scale)
        h == QMul(h_mm, scale)
    IN  [x |-> QAdd(Frac(geometry.margin_x, 1),
                    QDiv(QSub(Frac(usable_w, 1), w), Frac(2, 1))),
         y |-> QAdd(Frac(band_top, 1), QDiv(QSub(Frac(band_h, 1), h), Frac(2, 1))),
         w |-> w, h |-> h, scale |-> scale]

\* 02_pdf.main's placement of a cached raster of px_w x px_h pixels in the band
\* of height band_h that starts at band_top: size in mm at 300 dpi, one scale
\* for both axes, centred
place(px_w, px_h, band_h, band_top) ==
    LET w_mm == Frac(254 * px_w, 3000)
        h_mm == Frac(254 * px_h, 3000)
        by_w == QDiv(Frac(usable_w, 1), w_mm)
        by_h == QDiv(Frac(band_h, 1), h_mm)
        scale == IF QLess(by_h, by_w) THEN by_h ELSE by_w
        w == QMul(w_mm, scale)
        h == QMul(h_mm, scale)
    IN  [x |-> QAdd(Frac(geometry.margin_x, 1),
                    QDiv(QSub(Frac(usable_w, 1), w), Frac(2, 1))),
         y |-> QAdd(Frac(band_top, 1), QDiv(QSub(Frac(band_h, 1), h), Frac(2, 1))),
         w |-> w, h |-> h, scale |-> scale]

\* no image placed
NoRect == [x |-> Frac(0, 1), y |-> Frac(0, 1), w |-> Frac(0, 1), h |-> Frac(0, 1),
           scale |-> Frac(0, 1)]

PlanFile == << "rotation_plan.txt" >>

\* a temporary folder beside the photos, as a pass writing next to its source
OutputPaths_beside_source ==
    [plan    |-> join(output_folder, PlanFile),
     pdf     |-> join(output_folder, << "Photobook.pdf" >>),
     resized |-> join(output_folder, << "Resized_Images" >>),
     maps    |-> join(output_folder, << "Map_Cache" >>),
     temp    |-> FolderP]

\* where the passes write: plan_path (01_rotate.main, 02_pdf.main), output_pdf,
\* resized_folder, map_cache_folder and temp_folder, all joined to output_folder
OutputPaths ==
    [plan    |-> join(output_folder, PlanFile),
     pdf     |-> join(output_folder, << "Photobook.pdf" >>),
     resized |-> join(output_folder, << "Resized_Images" >>),
     maps    |-> join(output_folder, << "Map_Cache" >>),
     temp    |-> join(output_folder, << "PDF_Temp" >>)]

Raise(kind, path, planfile) ==
    /\ pc' = "error"
    /\ err' = [kind |-> kind, path |-> path, plan |-> planfile]

NoArt == [w |-> 0, h |-> 0, src |-> << >>, deg |-> 0, version |-> 0]

\* the call numbered: ret.n counts the transform-cache calls made so far
Stamp(r) == [r EXCEPT !.n = ret.n + 1]

\* a lookup that turns a photo by 0 degrees when the plan has no entry for it
lookup_rotation_default(rel, rots) ==
    IF rel \notin DOMAIN rots THEN [ok |-> TRUE, deg |-> 0] ELSE [ok |-> TRUE, deg |-> rots[rel]]

\* the rotation of a photo: rotations[rel], or KeyError when rel is no key
lookup_rotation(rel, rots) ==
    IF rel \notin DOMAIN rots THEN [ok |-> FALSE, deg |-> 0] ELSE [ok |-> TRUE, deg |-> rots[rel]]

\* 02_pdf.main up to the chapter loop: the plan is found and decoded, the layout checked
BuildStart ==
    /\ pc = "idle"
    /\ IF plan_missing
       THEN /\ Raise("FileNotFoundError", OutputPaths.plan, OutputPaths.plan)
            /\ UNCHANGED rotations
       ELSE LET r == parse_rotation_plan(plan.lines)
            IN  IF ~r.ok
                THEN /\ Raise("ValueError", << >>, << >>)
                     /\ UNCHANGED rotations
                ELSE IF layout_too_tight
                THEN /\ Raise("RuntimeError", << >>, << >>)
                     /\ rotations' = r.mapping
                ELSE /\ pc' = "build"
                     /\ err' = NoErr
                     /\ rotations' = r.mapping
    /\ UNCHANGED << input_folders, gps_folder, gps_match, output_folder, images_table, geometry, earlier, dirs, disk, plan, all_items, edits,
                    chapter, images_sorted, pos, pages, resized, map_cache, pdf_temp,
                    output_pdf, ret, calls >>

\* one turn of the chapter loop up to the photo loop: chapter_page, collect_images, sorted
BuildChapter ==
    /\ pc = "build"
    /\ pos = Len(images_sorted)
    /\ chapter < Len(input_folders)
    /\ LET c == input_folders[chapter + 1]
           chapter_thumb == IF c.thumb # << >> THEN join(c.folder, c.thumb) ELSE << >>
           divider == [kind |-> "chapter", chapter |-> chapter + 1, src |-> << >>,
                       photo |-> << >>, pw |-> 0, ph |-> 0, has_map |-> FALSE,
                       map |-> << >>, mw |-> 0, mh |-> 0, art |-> NoArt, map_art |-> NoArt,
                       rect |-> NoRect, map_rect |-> NoRect]
       IN  /\ pages' = Append(pages, divider)
           /\ IF chapter_thumb # << >> /\ isfile(chapter_thumb) /\ ~disk[chapter_thumb].readable
              THEN /\ Raise("OSError", chapter_thumb, << >>)
                   /\ UNCHANGED << chapter, images_sorted, pos, pdf_temp >>
              ELSE /\ pdf_temp' = IF chapter_thumb # << >> /\ isfile(chapter_thumb)
                                  THEN pdf_temp \cup {Pdfprep \o basename(chapter_thumb)}
                                  ELSE pdf_temp
                   /\ \E srt \in {sorted(collect_images(c.folder, listing)) :
                                     listing \in Listings(dirs[c.folder])} :
                             IF ~srt.ok
                             THEN /\ Raise("TypeError", << >>, << >>)
                                  /\ UNCHANGED << chapter, images_sorted, pos >>
                             ELSE /\ chapter' = chapter + 1
                                  /\ images_sorted' = srt.list
                                  /\ pos' = 0
                                  /\ UNCHANGED << pc, err >>
    /\ UNCHANGED << input_folders, gps_folder, gps_match, output_folder, images_table, geometry, earlier, dirs, disk, plan, all_items, edits,
                    rotations, resized, map_cache, output_pdf, ret, calls >>

\* one turn of the photo loop: the rotation looked up, the photo and its map
\* cached, the page added and both images placed
BuildPhoto ==
    /\ pc = "build"
    /\ pos < Len(images_sorted)
    /\ LET src_path == images_sorted[pos + 1]
           rel == replace_backslash(src_path)
           looked == lookup_rotation(rel, rotations)
       IN  IF ~looked.ok
           THEN /\ Raise("KeyError", rel, OutputPaths.plan)
                /\ UNCHANGED << pos, pages, resized, map_cache, ret >>
           ELSE LET photo == process_photo_to_cache(src_path, looked.deg, resized)
                IN  IF ~photo.ret.ok
                    THEN /\ Raise("OSError", src_path, << >>)
                         /\ ret' = Stamp(photo.ret)
                         /\ UNCHANGED << pos, pages, resized, map_cache >>
                    ELSE \E listing1, listing2 \in Listings(gps_folder.names) :
                        LET gps == find_corresponding_gps_image(
                                       src_path, gps_folder, listing1, listing2, gps_match)
                            gps_path == join(FolderG, gps.fn)
                            use_map == gps.found /\ isfile(gps_path)
                            map == process_map_to_cache(gps_path, 270, map_cache)
                        IN  IF use_map /\ ~map.ret.ok
                            THEN /\ Raise("OSError", gps_path, << >>)
                                 /\ ret' = Stamp(map.ret)
                                 /\ resized' = photo.cache
                                 /\ UNCHANGED << pos, pages, map_cache >>
                            ELSE /\ resized' = photo.cache
                                 /\ map_cache' = IF use_map THEN map.cache ELSE map_cache
                                 /\ ret' = Stamp(IF use_map THEN map.ret ELSE photo.ret)
                                 /\ pages' = Append(pages,
                                       [kind |-> "photo", chapter |-> chapter, src |-> src_path,
                                        photo |-> photo.ret.path,
                                        pw |-> photo.ret.w, ph |-> photo.ret.h,
                                        has_map |-> use_map /\ map.ret.w # 0 /\ map.ret.h # 0,
                                        map |-> IF use_map THEN map.ret.path ELSE << >>,
                                        mw |-> IF use_map THEN map.ret.w ELSE 0,
                                        mh |-> IF use_map THEN map.ret.h ELSE 0,
                                        art |-> photo.cache[photo.ret.path],
                                        map_art |-> IF use_map THEN map.cache[map.ret.path]
                                                    ELSE NoArt,
                                        rect |-> place(photo.ret.w, photo.ret.h, photo_area_h,
                                                       geometry.margin_y + map_area_h
                                                          + geometry.gutter_y),
                                        map_rect |->
                                            IF use_map /\ map.ret.w # 0 /\ map.ret.h # 0
                                            THEN place(map.ret.w, map.ret.h, map_area_h,
                                                       geometry.margin_y)
                                            ELSE NoRect])
                                 /\ pos' = pos + 1
                                 /\ UNCHANGED << pc, err >>
    /\ UNCHANGED << input_folders, gps_folder, gps_match, output_folder, images_table, geometry, earlier, dirs, disk, plan, all_items, edits,
                    rotations, chapter, images_sorted, pdf_temp, output_pdf, calls >>

\* pdf.output(output_pdf) after the last chapter
BuildOutput ==
    /\ pc = "build"
    /\ pos = Len(images_sorted)
    /\ chapter = Len(input_folders)
    /\ output_pdf' = [exists |-> TRUE, pages |-> pages]
    /\ pc' = "done"
    /\ UNCHANGED << input_folders, gps_folder, gps_match, output_folder, images_table, geometry, earlier, dirs, disk, plan, all_items, edits,
                    err, rotations, chapter, images_sorted, pos, pages, resized, map_cache,
                    pdf_temp, ret, calls >>

\* ---------------------------------------------------------------- the pipeline
\* everything but the inputs, as it is before either pass has run
Fresh ==
    /\ earlier = NoRun
    /\ plan = NoFile
    /\ all_items = << >>
    /\ edits = 0
    /\ pc = "idle"
    /\ err = NoErr
    /\ rotations = EmptyMap
    /\ chapter = 0
    /\ images_sorted = << >>
    /\ pos = 0
    /\ pages = << >>
    /\ resized = EmptyMap
    /\ map_cache = EmptyMap
    /\ pdf_temp = {}
    /\ output_pdf = [exists |-> FALSE, pages |-> << >>]
    /\ ret = NoRet
    /\ calls = 0

\* the inputs: a configuration, the folders' entries, the map folder
World(cfgs, photos, geometries) ==
    /\ input_folders \in cfgs
    /\ \E sur \in Surroundings :
          /\ gps_folder = [isdir |-> sur.isdir, names |-> sur.names]
          /\ gps_match = sur.mode
          /\ output_folder = FolderOut
          /\ images_table = << >>
          /\ geometry \in geometries
          /\ \E ep \in PhotoSets(photos), eq \in PhotoSets(HashQPool) :
                dirs = [d \in {FolderP, FolderHashQ} |->
                           IF ~Uses(input_folders, d) THEN {}
                           ELSE IF d = FolderP THEN ep \cup sur.other ELSE eq]
    /\ disk = DiskOf(dirs, gps_folder)

Init == World(Configs, PhotoPool, {PageGeometry}) /\ Fresh

Next ==
    \/ RotateMain
    \/ BuildStart
    \/ BuildChapter
    \/ BuildPhoto
    \/ BuildOutput

\* the two passes run one after the other on the plan as written
Spec == Init /\ [][Next]_vars

\* the same with the human edit between the passes
EditedPool == {a_jpg, b_png}

InitEdit == World({<< Chapter(FolderP, << "P" >>, a_jpg) >>}, EditedPool, {PageGeometry}) /\ Fresh

NextEdit ==
    \/ RotateMain
    \/ EditPlan
    \/ BuildStart
    \/ BuildChapter
    \/ BuildPhoto
    \/ BuildOutput

SpecEdit == InitEdit /\ [][NextEdit]_vars

\* ---------------------------------------------------------------- the sort keys
\* both passes over one folder of two files with any metadata: tags absent,
\* unparsable or set, the file corrupt or not, the modification time readable or not
ExifChoices ==
    {<< NoDate, NoDate, NoDate >>, << 5, NoDate, NoDate >>, << Unparsable, 5, 2 >>,
     << NoDate, Unparsable, 9 >>, << Unparsable, Unparsable, Unparsable >>}

KeyFiles ==
    {[Image(e, m, 640, 480, 1) EXCEPT !.readable = r] :
        e \in ExifChoices, m \in {2, 9, Unparsable}, r \in BOOLEAN}

InitKey ==
    /\ input_folders = << Chapter(FolderP, << "P" >>, << >>) >>
    /\ gps_folder = [isdir |-> FALSE, names |-> {}]
    /\ gps_match = "stem_contains"
    /\ output_folder = FolderOut
    /\ images_table = << >>
    /\ geometry = PageGeometry
    /\ dirs = [d \in {FolderP, FolderHashQ} |-> IF d = FolderP THEN {a_jpg, b_png} ELSE {}]
    /\ disk \in [{join(FolderP, a_jpg), join(FolderP, b_png)} -> KeyFiles]
    /\ Fresh

SpecKey == InitKey /\ [][Next]_vars

\* ---------------------------------------------------------------- the build run twice
\* 02_pdf.py started again after a finished build, on the same configuration,
\* folders and plan; the caches are as the first build left them, or emptied
Rerun ==
    /\ pc = "done"
    /\ earlier.n = 0
    /\ earlier' = [n |-> 1, pages |-> pages, names |-> DOMAIN resized \cup DOMAIN map_cache]
    /\ \E keep \in BOOLEAN :
          /\ resized' = IF keep THEN resized ELSE EmptyMap
          /\ map_cache' = IF keep THEN map_cache ELSE EmptyMap
    /\ pc' = "idle"
    /\ err' = NoErr
    /\ rotations' = EmptyMap
    /\ chapter' = 0
    /\ images_sorted' = << >>
    /\ pos' = 0
    /\ pages' = << >>
    /\ ret' = NoRet
    /\ UNCHANGED << input_folders, gps_folder, gps_match, output_folder, images_table, geometry, dirs, disk, plan,
                    all_items, edits, pdf_temp, output_pdf, calls >>

RerunPool == {a_jpg, A_JPG, b_png}

InitRerun ==
    World({<< Chapter(FolderP, << "P" >>, a_jpg) >>}, RerunPool, {PageGeometry}) /\ Fresh

NextRerun ==
    \/ Next
    \/ Rerun

SpecRerun == InitRerun /\ [][NextRerun]_vars

\* ---------------------------------------------------------------- the build resumed
\* after an aborted build the human repairs what the error names (the missing
\* plan entry added, the unreadable file replaced) and starts 02_pdf.py again;
\* the cache folders are as the aborted build left them, and the repair is the
\* human's last edit
Resume ==
    /\ pc = "error"
    /\ earlier.n = 0
    /\ err.kind \in {"KeyError", "OSError"}
    /\ IF err.kind = "KeyError"
       THEN /\ plan' = [plan EXCEPT !.lines = Append(plan.lines, err.path \o Separator \o << "0" >>)]
            /\ UNCHANGED disk
       ELSE /\ disk' = [disk EXCEPT ![err.path] = Image(<< NoDate, NoDate, NoDate >>,
                                                       disk[err.path].mtime, 640, 480, 1)]
            /\ UNCHANGED plan
    /\ earlier' = [n |-> 1, pages |-> pages, names |-> DOMAIN resized \cup DOMAIN map_cache]
    /\ pc' = "idle"
    /\ err' = NoErr
    /\ rotations' = EmptyMap
    /\ chapter' = 0
    /\ images_sorted' = << >>
    /\ pos' = 0
    /\ pages' = << >>
    /\ ret' = NoRet
    /\ edits' = MaxEdits
    /\ UNCHANGED << input_folders, gps_folder, gps_match, output_folder, images_table, geometry, dirs, all_items,
                    resized, map_cache, pdf_temp, output_pdf, calls >>

ResumePool == {a_jpg, b_png, u_jpg}

InitResume ==
    World({<< Chapter(FolderP, << "P" >>, a_jpg) >>}, ResumePool, {PageGeometry}) /\ Fresh

NextResume ==
    \/ NextEdit
    \/ Resume

SpecResume == InitResume /\ [][NextResume]_vars

\* ---------------------------------------------------------------- the layout retuned
\* the build under other values of the literals map_max_h and margin_y
Geometries ==
    {[PageGeometry EXCEPT !.map_max_h = m, !.margin_y = y] :
        m \in {20, 60, 216, 217, 280}, y \in {12, 30}}

LayoutPool == {a_jpg, A_JPG, b_png, u_jpg}

InitLayout ==
    World({<< Chapter(FolderP, << "P" >>, a_jpg) >>}, LayoutPool, Geometries) /\ Fresh

SpecLayout == InitLayout /\ [][Next]_vars

\* ---------------------------------------------------------------- the output folder chosen
\* the two passes under a configuration whose output folder is a folder of its
\* own or the source folder itself; what the passes add to a folder is neither
\* an image file name nor a file directly in it, so the listings stay as given
OutputFolders == {FolderOut, FolderP}

FramePool == {a_jpg, b_png, u_jpg}

InitFrame ==
    /\ input_folders = << Chapter(FolderP, << "P" >>, a_jpg) >>
    /\ gps_folder \in {[isdir |-> FALSE, names |-> {}], [isdir |-> TRUE, names |-> {map_a_png}]}
    /\ gps_match = "stem_contains"
    /\ output_folder \in OutputFolders
    /\ images_table = << >>
    /\ geometry = PageGeometry
    /\ \E ep \in PhotoSets(FramePool) :
          dirs = [d \in {FolderP, FolderHashQ} |-> IF d = FolderP THEN ep ELSE {}]
    /\ disk = DiskOf(dirs, gps_folder)
    /\ Fresh

SpecFrame == InitFrame /\ [][Next]_vars

\* ---------------------------------------------------------------- photos of one stem
\* the two passes on a folder that may hold a.jpg and a.png side by side
StemPool == {a_jpg, a_png, b_png}

InitStem == World({<< Chapter(FolderP, << "P" >>, a_jpg) >>}, StemPool, {PageGeometry}) /\ Fresh

SpecStem == InitStem /\ [][Next]_vars

\* ---------------------------------------------------------------- the bar deleted
NextBar ==
    \/ Next
    \/ EditDropSeparator

\* the two passes with an entry line losing its bar in between
SpecBar == InitEdit /\ [][NextBar]_vars

\* ---------------------------------------------------------------- the transform cache alone
\* a call of process_photo_to_cache from outside the build; an exception goes
\* to the caller (ret.ok is FALSE)
PhotoCall(src_path, deg) ==
    LET r == process_photo_to_cache(src_path, deg, resized)
    IN  /\ resized' = r.cache
        /\ ret' = Stamp(r.ret)
        /\ UNCHANGED map_cache

\* a call of process_map_to_cache
MapCall(map_path, deg) ==
    LET r == process_map_to_cache(map_path, deg, map_cache)
    IN  /\ map_cache' = r.cache
        /\ ret' = Stamp(r.ret)
        /\ UNCHANGED resized

Rest == << input_folders, gps_folder, gps_match, output_folder, images_table, geometry, earlier, dirs, plan, all_items, edits, pc, err,
           rotations, chapter, images_sorted, pos, pages, pdf_temp, output_pdf >>

PhotoSources == {join(FolderP, a_jpg), join(FolderHashQ, a_jpg)}
MapSources == {join(FolderG, map_a_png)}
Degrees == {0, 90, 180, 270}

CachePhoto ==
    /\ calls < MaxCalls
    /\ \E src_path \in PhotoSources, deg \in Degrees : PhotoCall(src_path, deg)
    /\ calls' = calls + 1
    /\ UNCHANGED << Rest, disk >>

CacheMap ==
    /\ calls < MaxCalls
    /\ \E map_path \in MapSources : MapCall(map_path, 270)
    /\ calls' = calls + 1
    /\ UNCHANGED << Rest, disk >>

\* the user deletes a source file
DeleteSource ==
    /\ calls < MaxCalls
    /\ \E gone \in DOMAIN disk : disk' = [q \in (DOMAIN disk) \ {gone} |-> disk[q]]
    /\ calls' = calls + 1
    /\ UNCHANGED << Rest, resized, map_cache, ret >>

\* the user replaces a source file by another image under the same name
ChangeSource ==
    /\ calls < MaxCalls
    /\ \E changed \in DOMAIN disk :
          /\ disk[changed].version = 1
          /\ disk' = [disk EXCEPT ![changed] =
                         [disk[changed] EXCEPT !.w = 2 * disk[changed].w,
                                               !.h = disk[changed].h + 1,
                                               !.version = 2]]
    /\ calls' = calls + 1
    /\ UNCHANGED << Rest, resized, map_cache, ret >>

\* the user deletes a cache file
DeleteCached ==
    /\ calls < MaxCalls
    /\ \/ /\ \E gone \in DOMAIN resized :
                resized' = [q \in (DOMAIN resized) \ {gone} |-> resized[q]]
          /\ UNCHANGED map_cache
       \/ /\ \E gone \in DOMAIN map_cache :
                map_cache' = [q \in (DOMAIN map_cache) \ {gone} |-> map_cache[q]]
          /\ UNCHANGED resized
    /\ calls' = calls + 1
    /\ UNCHANGED << Rest, disk, ret >>

NoWorld ==
    /\ input_folders = << >>
    /\ gps_folder = [isdir |-> FALSE, names |-> {}]
    /\ gps_match = "stem_contains"
    /\ output_folder = FolderOut
    /\ images_table = << >>
    /\ geometry = PageGeometry
    /\ dirs = [d \in {FolderP, FolderHashQ} |-> {}]

InitCache ==
    /\ NoWorld
    /\ disk = [q \in PhotoSources \cup MapSources |->
                  IF q = join(FolderHashQ, a_jpg) THEN Attr(b_png) ELSE Attr(basename(q))]
    /\ Fresh

NextCache ==
    \/ CachePhoto
    \/ CacheMap
    \/ DeleteSource
    \/ ChangeSource
    \/ DeleteCached

\* calls of the cache functions in any order, between them the user's deletions
SpecCache == InitCache /\ [][NextCache]_vars

\* ---------------------------------------------------------------- one derivation
Sizes == {1, 100, 373, 374, 375, 1406, 1407, 1654, 1655, 2338, 2339, 3000, 4000, 6000}
Orientations == {1, 3, 6, 8}

InitDerive ==
    /\ NoWorld
    /\ \E w \in Sizes, h \in Sizes, o \in Orientations :
          disk = [q \in {join(FolderP, a_jpg), join(FolderG, map_a_png)} |->
                     Image(<< NoDate, NoDate, NoDate >>, 1, w, h, o)]
    /\ Fresh

\* the first call into the empty cache directories
DerivePhoto ==
    /\ ret.n = 0
    /\ \E deg \in Degrees : PhotoCall(join(FolderP, a_jpg), deg)
    /\ UNCHANGED << Rest, disk, calls >>

DeriveMap ==
    /\ ret.n = 0
    /\ \E deg \in Degrees : MapCall(join(FolderG, map_a_png), deg)
    /\ UNCHANGED << Rest, disk, calls >>

NextDerive ==
    \/ DerivePhoto
    \/ DeriveMap

\* sources of every size, each derived once
SpecDerive == InitDerive /\ [][NextDerive]_vars

\* ---------------------------------------------------------------- the decoder alone
p_a_jpg == join(FolderP, a_jpg)
p_b_png == join(FolderP, b_png)

Entry(path, sep, degrees) == path \o sep \o degrees

\* plan lines as a human may leave them, each with what the format says about it:
\* class "skip" (blank, comment), "none" (no separator), "good" (key, deg), "bad"
Line(text, class, key, deg) == [text |-> text, class |-> class, key |-> key, deg |-> deg]

LinePool ==
    {Line(Entry(p_a_jpg, Separator, << "2", "7", "0" >>), "good", p_a_jpg, 270),
     Line(Entry(<< "p", "\\" >> \o a_jpg, << "|" >>, << "9", "0" >>), "good", p_a_jpg, 90),
     Line(Entry(<< " ", " " >> \o p_a_jpg, << " ", " ", "|", "\t" >>, << "0", " " >>),
          "good", p_a_jpg, 0),
     Line(Entry(p_b_png, Separator, << "1", "8", "0" >>), "good", p_b_png, 180),
     Line(Entry(p_a_jpg, Separator, << "4", "5" >>), "bad", << >>, 0),
     Line(Entry(p_a_jpg, Separator, << "-", "9", "0" >>), "bad", << >>, 0),
     Line(Entry(p_a_jpg, Separator, << "3", "6", "0" >>), "bad", << >>, 0),
     Line(Entry(p_a_jpg, Separator, << "x" >>), "bad", << >>, 0),
     Line(Entry(p_a_jpg, Separator, << >>), "bad", << >>, 0),
     Line(Entry(p_a_jpg, Separator, << "9", "0", ".", "0" >>), "bad", << >>, 0),
     Line(p_a_jpg, "none", << >>, 0),
     Line(<< "#", " " >> \o Entry(p_a_jpg, Separator, << "4", "5" >>), "skip", << >>, 0),
     Line(<< " " >>, "skip", << >>, 0)}

LineTexts == {l.text : l \in LinePool}

InitCodec ==
    /\ input_folders = << Chapter(FolderP, << "P" >>, << >>) >>
    /\ gps_folder = [isdir |-> FALSE, names |-> {}]
    /\ gps_match = "stem_contains"
    /\ output_folder = FolderOut
    /\ images_table = << >>
    /\ geometry = PageGeometry
    /\ earlier = NoRun
    /\ dirs = [d \in {FolderP, FolderHashQ} |-> IF d = FolderP THEN {a_jpg} ELSE {}]
    /\ disk = DiskOf(dirs, gps_folder)
    /\ all_items = << >>
    /\ \E n \in 1..MaxLines : \E lines \in [1..n -> LineTexts] :
          plan = [exists |-> TRUE, lines |-> lines]
    /\ edits = 0
    /\ pc = "idle"
    /\ err = NoErr
    /\ rotations = EmptyMap
    /\ chapter = 0
    /\ images_sorted = << >>
    /\ pos = 0
    /\ pages = << >>
    /\ resized = EmptyMap
    /\ map_cache = EmptyMap
    /\ pdf_temp = {}
    /\ output_pdf = [exists |-> FALSE, pages |-> << >>]
    /\ ret = NoRet
    /\ calls = 0

NextCodec ==
    \/ BuildStart
    \/ BuildChapter
    \/ BuildPhoto
    \/ BuildOutput

\* the build pass on a plan written by hand
SpecCodec == InitCodec /\ [][NextCodec]_vars

\* ---------------------------------------------------------------- the map lookup alone
MaxMaps == 3        \* entries of the map folder (lookup specification)

Img1 == << "i", "m", "g", "_", "1" >>
Img10 == << "i", "m", "g", "_", "1", "0" >>
MapTail == << "8", "x", "2" >>

\* a name of the map folder and what it is to the photo stems "img_1" and
\* "img_10": an image by its extension, carrying the delimited token of a stem,
\* having a stem as its own stem, containing a stem somewhere
MapName(fn, image, token, exact, loose) ==
    [fn |-> fn, image |-> image, token |-> token, exact |-> exact, loose |-> loose]

MatchPool ==
    {MapName(<< "t", "_", "_" >> \o Img1 \o MapToken \o MapTail \o Png,
             TRUE, {"img_1"}, {}, {"img_1"}),
     MapName(<< "t", "_", "_" >> \o Img10 \o MapToken \o MapTail \o Png,
             TRUE, {"img_10"}, {}, {"img_1", "img_10"}),
     MapName(<< "x" >> \o Img1 \o << "y" >> \o Jpg,
             TRUE, {}, {}, {"img_1"}),
     MapName(<< "I", "M", "G", "_", "1", ".", "P", "N", "G" >>,
             TRUE, {}, {"img_1"}, {"img_1"}),
     MapName(<< "t", "_", "_" >> \o Img1 \o MapToken \o MapTail \o << ".", "t", "x", "t" >>,
             FALSE, {"img_1"}, {}, {"img_1"}),
     MapName(<< "T", "_", "_", "I", "M", "G", "_", "1", "0", "_", "_", "M", "A", "P", "_" >>
                \o << ".", "J", "P", "E", "G" >>,
             TRUE, {"img_10"}, {}, {"img_1", "img_10"}),
     MapName(<< "n" >> \o Png, TRUE, {}, {}, {})}

\* the photos looked up, each with the stem the lookup derives from it
MatchPhotos ==
    {[path |-> join(FolderP, << "I", "M", "G", "_", "1" >> \o Jpg), stem |-> "img_1"],
     [path |-> join(FolderP, Img10 \o Jpeg), stem |-> "img_10"]}

MapFolders ==
    {[isdir |-> FALSE, names |-> {}]}
    \cup {[isdir |-> TRUE, names |-> {m.fn : m \in S}] :
             S \in {T \in SUBSET MatchPool : Cardinality(T) <= MaxMaps}}

InitMatch ==
    /\ input_folders = << >>
    /\ gps_folder \in MapFolders
    /\ gps_match \in {"stem_contains", "exact"}
    /\ output_folder = FolderOut
    /\ images_table = << >>
    /\ geometry = PageGeometry
    /\ dirs = [d \in {FolderP, FolderHashQ} |-> {}]
    /\ disk = EmptyMap
    /\ Fresh

\* one call of find_corresponding_gps_image; each of its two os.listdir calls
\* may return the entries in any order
FindMap ==
    /\ ret.n = 0
    /\ \E photo \in MatchPhotos :
          \E r \in {find_corresponding_gps_image(photo.path, gps_folder, l1, l2, gps_match) :
                       l1 \in Listings(gps_folder.names), l2 \in Listings(gps_folder.names)} :
             ret' = [NoRet EXCEPT !.n = 1, !.kind = "find", !.ok = r.found,
                                  !.src = photo.path, !.path = r.fn]
    /\ UNCHANGED << Rest, disk, resized, map_cache, calls >>

NextMatch == FindMap

\* the lookup on every map folder of up to MaxMaps entries
SpecMatch == InitMatch /\ [][NextMatch]_vars

\* ---------------------------------------------------------------- the map exporter
\* str.isalnum() on ASCII characters
isalnum(c) ==
    \/ LowerCh(c) \in {"a", "b", "c", "d", "e", "f", "g", "h", "i", "j", "k", "l", "m", "n", "o", "p", "q", "r", "s", "t", "u", "v", "w", "x", "y", "z"}
    \/ \E d \in 1..10 : Digits[d] = c

\* export_gps_two_folders.safe_stem, on p.stem
safe_stem(stem) ==
    [i \in 1..Len(stem) |-> IF isalnum(stem[i]) \/ stem[i] \in {"-", "_"} THEN stem[i] ELSE "_"]

\* Path(name).suffix
suffix(name) == SubSeq(name, Len(splitext0(name)) + 1, Len(name))

\* iter_images (not recursive): regular files with a JPEG suffix in one of four
\* spellings, panoramas and burst shots left out (name.upper() is compared,
\* which on ASCII is the same as comparing name.lower() with lower-case words)
iter_images(folder) ==
    {fn \in dirs[folder] :
        /\ isfile(join(folder, fn))
        /\ suffix(fn) \in {Jpg, Jpeg, << ".", "J", "P", "G" >>, << ".", "J", "P", "E", "G" >>}
        /\ ~startswith(lower(fn), << "p", "a", "n", "o", "_" >>)
        /\ ~Contains(lower(fn), << "b", "u", "r", "s", "t" >>)}

\* the dt of extract_gps_and_dt: DateTimeOriginal (36867), else DateTime (306)
export_dt(path) ==
    LET exif == disk[path].exif
    IN  IF ~disk[path].readable THEN NoDate
        ELSE IF exif[1] \notin {NoDate, Unparsable} THEN exif[1]
        ELSE IF exif[3] \notin {NoDate, Unparsable} THEN exif[3]
        ELSE NoDate

\* out_name of main; the timestamp of strftime is the date's number in digits
out_name(path, width, height) ==
    str(export_dt(path)) \o << "_", "_" >> \o safe_stem(splitext0(basename(path)))
        \o MapToken \o str(width) \o << "x" >> \o str(height) \o Png

\* the sizes --width and --height may give
ExportSizes == {<< 8, 2 >>, << 700, 1000 >>}

\* export_gps_two_folders.main on the photos folder p into an output folder not
\* yet made: one map for every image that has a date and, by located, a position
Export ==
    /\ pc = "idle"
    /\ ~gps_folder.isdir
    /\ \E located \in SUBSET iter_images(FolderP), size \in ExportSizes :
          gps_folder' =
             [isdir |-> TRUE,
              names |-> {out_name(join(FolderP, fn), size[1], size[2]) :
                            fn \in {f \in located : export_dt(join(FolderP, f)) # NoDate}}]
    /\ UNCHANGED << input_folders, gps_match, output_folder, images_table, geometry, earlier, dirs, disk, plan,
                    all_items, edits, pc, err, rotations, chapter, images_sorted, pos, pages,
                    resized, map_cache, pdf_temp, output_pdf, ret, calls >>

\* the matcher of the build, given a photo of the folder and the exporter's folder
MatchExported ==
    /\ gps_folder.isdir
    /\ ret.n = 0
    /\ \E fn \in dirs[FolderP] :
          \E r \in {find_corresponding_gps_image(join(FolderP, fn), gps_folder, l1, l2, gps_match) :
                       l1 \in Listings(gps_folder.names), l2 \in Listings(gps_folder.names)} :
             ret' = [NoRet EXCEPT !.n = 1, !.kind = "find", !.ok = r.found,
                                  !.src = join(FolderP, fn), !.path = r.fn]
    /\ UNCHANGED << Rest, disk, resized, map_cache, calls >>

\* photo names of the photos folder and, by hand, what safe_stem makes of their stems
ExportPool ==
    {[fn |-> << "i", "m", "g", "_", "1", ".", "j", "p", "g" >>,
      safe |-> << "i", "m", "g", "_", "1" >>],
     [fn |-> << "I", "M", "G", "_", "1", "0", ".", "J", "P", "G" >>,
      safe |-> << "I", "M", "G", "_", "1", "0" >>],
     [fn |-> << "m", "y", " ", "p", "h", "o", "t", "o", ".", "j", "p", "g" >>,
      safe |-> << "m", "y", "_", "p", "h", "o", "t", "o" >>],
     [fn |-> << "a", ".", "b", ".", "j", "p", "e", "g" >>,
      safe |-> << "a", "_", "b" >>],
     [fn |-> << "x", "(", "1", ")", ".", "j", "p", "g" >>,
      safe |-> << "x", "_", "1", "_" >>],
     [fn |-> << "P", "A", "N", "O", "_", "1", ".", "j", "p", "g" >>,
      safe |-> << "P", "A", "N", "O", "_", "1" >>]}

ExportFiles ==
    {Image(<< 5, NoDate, NoDate >>, 1, 640, 480, 1),
     Image(<< Unparsable, NoDate, 7 >>, 1, 640, 480, 1),
     Image(<< NoDate, 5, NoDate >>, 1, 640, 480, 1)}

InitExport ==
    /\ input_folders = << Chapter(FolderP, << "P" >>, << >>) >>
    /\ gps_folder = [isdir |-> FALSE, names |-> {}]
    /\ gps_match = "stem_contains"
    /\ output_folder = FolderOut
    /\ images_table = << >>
    /\ geometry = PageGeometry
    /\ \E ep \in PhotoSets({x.fn : x \in ExportPool}) :
          /\ dirs = [d \in {FolderP, FolderHashQ} |-> IF d = FolderP THEN ep ELSE {}]
          /\ disk \in [{join(FolderP, fn) : fn \in ep} -> ExportFiles]
    /\ Fresh

NextExport ==
    \/ Export
    \/ MatchExported

\* the exporter, then the matcher on its output folder
SpecExport == InitExport /\ [][NextExport]_vars

\* ---------------------------------------------------------------- the review app
GOOD_OUTPUT_DIR == << "good_photobook" >>

IMAGE_EXTS ==
    {<< ".", "j", "p", "g" >>,
     << ".", "j", "p", "e", "g" >>,
     << ".", "p", "n", "g" >>,
     << ".", "g", "i", "f" >>,
     << ".", "w", "e", "b", "p" >>,
     << ".", "t", "i", "f" >>,
     << ".", "t", "i", "f", "f" >>,
     << ".", "b", "m", "p" >>}

\* a NULL good_copy_path
NoPath == << >>

\* is_hidden_path: some part of the path starts with a dot
is_hidden_path(p) ==
    \E i \in DOMAIN p : p[i] = "." /\ (i = 1 \/ p[i - 1] = "/")

\* iter_images_in_roots for one root, rglob and all: (root, file_path) for the
\* regular files below the root that are not hidden and have an image suffix
iter_images_in_root(root) ==
    {<< root, fp >> : fp \in {q \in DOMAIN disk :
        /\ startswith(q, root \o << "/" >>)
        /\ disk[q].isfile
        /\ ~is_hidden_path(q)
        /\ lower(suffix(basename(q))) \in IMAGE_EXTS}}

RECURSIVE sub_unsafe(_)
\* re.sub(r"[^A-Za-z0-9._-]+", "_", name): every run of other characters is one '_'
sub_unsafe(name) ==
    IF name = << >> THEN << >>
    ELSE IF isalnum(Head(name)) \/ Head(name) \in {".", "_", "-"}
    THEN << Head(name) >> \o sub_unsafe(Tail(name))
    ELSE IF Len(name) > 1 /\ ~(isalnum(name[2]) \/ name[2] \in {".", "_", "-"})
    THEN sub_unsafe(Tail(name))
    ELSE << "_" >> \o sub_unsafe(Tail(name))

RECURSIVE strip_underscores(_)
\* s.strip("_")
strip_underscores(s) ==
    IF s = << >> THEN s
    ELSE IF Head(s) = "_" THEN strip_underscores(Tail(s))
    ELSE IF s[Len(s)] = "_" THEN strip_underscores(SubSeq(s, 1, Len(s) - 1))
    ELSE s

\* stable_copy_name; the ten digits of the SHA-1 digest are kept as the key they
\* were made of: equal keys have equal digests and, short of a collision of the
\* hash itself, different keys have different ones
stable_copy_name(root, relpath, original_name) ==
    LET key == root \o << ":", ":" >> \o relpath
        safe_name == strip_underscores(sub_unsafe(original_name))
    IN  << "sha1:" >> \o key \o << "_", "_" >>
            \o (IF safe_name = << >> THEN << "i", "m", "a", "g", "e" >> ELSE safe_name)

RECURSIVE upsert_rows(_, _)
\* the loop of upsert_scan over what iter_images_in_roots yields: a new row with
\* good = 0 and no copy path for an unknown path, size and mtime refreshed for a
\* known one
upsert_rows(found, rows) ==
    IF found = << >> THEN rows
    ELSE LET root == Head(found)[1]
             fp == Head(found)[2]
         IN  IF \E i \in DOMAIN rows : rows[i].path = fp
             THEN upsert_rows(Tail(found),
                      [i \in DOMAIN rows |->
                          IF rows[i].path = fp THEN [rows[i] EXCEPT !.mtime = disk[fp].mtime]
                          ELSE rows[i]])
             ELSE upsert_rows(Tail(found),
                      Append(rows, [path |-> fp, root |-> root,
                                    relpath |-> SubSeq(fp, Len(root) + 2, Len(fp)),
                                    mtime |-> disk[fp].mtime,
                                    good |-> 0, good_copy_path |-> NoPath]))

\* the folders a scan request may name
AppRoots == {<< "a" >>, << "a", ":", ":", "b" >>}

\* POST /: upsert_scan(roots), the files of each root in the order rglob gives them
upsert_scan ==
    /\ \E roots \in (SUBSET AppRoots) \ {{}} :
          \E found \in Listings(UNION {iter_images_in_root(r) : r \in roots}) :
             images_table' = upsert_rows(found, images_table)
    /\ ret' = [NoRet EXCEPT !.kind = "scan"]
    /\ UNCHANGED << input_folders, gps_folder, gps_match, output_folder, geometry, earlier, dirs,
                    disk, plan, all_items, edits, pc, err, rotations, chapter, images_sorted,
                    pos, pages, resized, map_cache, pdf_temp, output_pdf, calls >>

\* copy_to_good: the destination inside GOOD_OUTPUT_DIR, or no copy when the
\* source is missing
copy_to_good(image_row) ==
    IF ~isfile(image_row.path) THEN [ok |-> FALSE, dest |-> NoPath]
    ELSE [ok |-> TRUE,
          dest |-> join(GOOD_OUTPUT_DIR,
                        stable_copy_name(image_row.root, image_row.relpath,
                                         basename(image_row.path)))]

\* remove_good_copy: the files left after it
remove_good_copy(copy_path) ==
    IF copy_path # NoPath /\ isfile(copy_path)
    THEN [q \in (DOMAIN disk) \ {copy_path} |-> disk[q]]
    ELSE disk

\* POST /toggle_good with image_id and good
toggle_good ==
    /\ \E image_id \in 1..(Len(images_table) + 1), make_good \in BOOLEAN :
          IF image_id \notin DOMAIN images_table
          THEN /\ ret' = [NoRet EXCEPT !.kind = "toggle", !.ok = FALSE]
               /\ UNCHANGED << images_table, disk >>
          ELSE LET row == images_table[image_id]
                   copy == copy_to_good(row)
               IN  IF make_good
                   THEN IF row.good = 1 /\ row.good_copy_path # NoPath
                        THEN /\ ret' = [NoRet EXCEPT !.kind = "mark", !.n = image_id]
                             /\ UNCHANGED << images_table, disk >>
                        ELSE IF ~copy.ok
                        THEN /\ ret' = [NoRet EXCEPT !.kind = "mark", !.n = image_id,
                                                     !.ok = FALSE]
                             /\ UNCHANGED << images_table, disk >>
                        ELSE /\ disk' = Put(disk, copy.dest, disk[row.path])
                             /\ images_table' = [images_table EXCEPT ![image_id].good = 1,
                                                         ![image_id].good_copy_path = copy.dest]
                             /\ ret' = [NoRet EXCEPT !.kind = "mark", !.n = image_id,
                                                     !.wrote = TRUE]
                   ELSE /\ disk' = remove_good_copy(row.good_copy_path)
                        /\ images_table' = [images_table EXCEPT ![image_id].good = 0,
                                                    ![image_id].good_copy_path = NoPath]
                        /\ ret' = [NoRet EXCEPT !.kind = "unmark", !.n = image_id]
    /\ UNCHANGED << input_folders, gps_folder, gps_match, output_folder, geometry, earlier, dirs,
                    plan, all_items, edits, pc, err, rotations, chapter, images_sorted,
                    pos, pages, resized, map_cache, pdf_temp, output_pdf, calls >>

\* the user's folders meanwhile: a file below a root is written again or removed
FileChanged ==
    /\ \E q \in DOMAIN disk :
          /\ \E r \in AppRoots : startswith(q, r \o << "/" >>)
          /\ \/ /\ disk[q].mtime = 1
                /\ disk' = [disk EXCEPT ![q].mtime = 2]
             \/ disk' = [x \in (DOMAIN disk) \ {q} |-> disk[x]]
    /\ ret' = [NoRet EXCEPT !.kind = "file"]
    /\ UNCHANGED << input_folders, gps_folder, gps_match, output_folder, images_table, geometry, earlier,
                    dirs, plan, all_items, edits, pc, err, rotations, chapter, images_sorted,
                    pos, pages, resized, map_cache, pdf_temp, output_pdf, calls >>

\* files the user's folders may hold
AppFiles ==
    {<< "a", ":", ":", "b", "/", "c", "/", "d", ".", "j", "p", "g" >>,
     << "a", "/", "b", ":", ":", "c", "/", "d", ".", "j", "p", "g" >>,
     << "a", "/", "e", " ", "f", ".", "P", "N", "G" >>,
     << "a", "/", ".", "h", ".", "j", "p", "g" >>,
     << "a", "/", "n", ".", "t", "x", "t" >>}

InitApp ==
    /\ input_folders = << >>
    /\ gps_folder = [isdir |-> FALSE, names |-> {}]
    /\ gps_match = "stem_contains"
    /\ output_folder = FolderOut
    /\ images_table = << >>
    /\ geometry = PageGeometry
    /\ dirs = [d \in {FolderP, FolderHashQ} |-> {}]
    /\ \E fs \in PhotoSets(AppFiles) :
          disk = [q \in fs |-> Image(<< NoDate, NoDate, NoDate >>, 1, 640, 480, 1)]
    /\ Fresh

NextApp ==
    \/ upsert_scan
    \/ toggle_good
    \/ FileChanged

\* the review app under scan and toggle requests
SpecApp == InitApp /\ [][NextApp]_vars

\* ================================================================ claims
\* ---------------------------------------------------------------- the placement alone
\* the pixel sizes a cached photo (a cached map) can have
PhotoSizes == {sz \in Sizes \X Sizes : sz[1] <= 1654 /\ sz[2] <= 2338}
MapSizes == {sz \in Sizes \X Sizes : sz[1] <= 1406 /\ sz[2] <= 374}

InitPlace ==
    /\ NoWorld
    /\ disk = EmptyMap
    /\ Fresh

\* 02_pdf.main from pdf.add_page() to the second pdf.image of one photo, with or
\* without a map, for cached rasters of any size
PlacePage ==
    /\ pages = << >>
    /\ \E psz \in PhotoSizes, msz \in MapSizes \cup {<< 0, 0 >>} :
          pages' = << [kind |-> "photo", chapter |-> 0, src |-> << >>, photo |-> << >>,
                       pw |-> psz[1], ph |-> psz[2], has_map |-> msz # << 0, 0 >>,
                       map |-> << >>, mw |-> msz[1], mh |-> msz[2],
                       art |-> NoArt, map_art |-> NoArt,
                       rect |-> place(psz[1], psz[2], photo_area_h,
                                      geometry.margin_y + map_area_h + geometry.gutter_y),
                       map_rect |-> IF msz # << 0, 0 >>
                                    THEN place(msz[1], msz[2], map_area_h, geometry.margin_y)
                                    ELSE NoRect] >>
    /\ UNCHANGED << input_folders, gps_folder, gps_match, output_folder, images_table, geometry, earlier, dirs, disk, plan,
                    all_items, edits, pc, err, rotations, chapter, images_sorted, pos,
                    resized, map_cache, pdf_temp, output_pdf, ret, calls >>

NextPlace == PlacePage

SpecPlace == InitPlace /\ [][NextPlace]_vars

\* ---------------------------------------------------------------- claims
InFolder(path, folder) == startswith(path, folder \o << "/" >>)

PhotoPagesOf(c) == {i \in 1..Len(pages) : pages[i].kind = "photo" /\ pages[i].chapter = c}

\* C1: the pages follow the input: chapters in the order of input_folders (a
\* page's src lies in the folder of its chapter, no page of a later chapter comes
\* before a page of an earlier one), the photo pages of a chapter in the order of
\* the sort key (never a greater key before a smaller one), and the pages of the
\* chapter being built are the head of its sorted list, in its order.
C1_PagesFollowInput ==
    /\ \A i, j \in 1..Len(pages) :
          i < j =>
             /\ pages[i].chapter <= pages[j].chapter
             /\ (pages[i].chapter = pages[j].chapter /\ pages[i].kind = "photo"
                    /\ pages[j].kind = "photo")
                => ~KeyLess(SortKey(pages[j].src), SortKey(pages[i].src))
    /\ \A i \in 1..Len(pages) :
          /\ pages[i].chapter \in 1..Len(input_folders)
          /\ pages[i].kind = "photo"
             => InFolder(pages[i].src, input_folders[pages[i].chapter].folder)
    /\ pc = "build" =>
          /\ pos <= Len(images_sorted)
          /\ Len(pages) >= pos
          /\ \A k \in 1..pos : pages[Len(pages) - pos + k].src = images_sorted[k]

\* a finished book of two chapters; one chapter holds two photos of different keys
C1_Witness ==
    /\ pc = "done"
    /\ Len(input_folders) = 2
    /\ PhotoPagesOf(2) # {}
    /\ \E i, j \in PhotoPagesOf(1) :
          i < j /\ KeyLess(SortKey(pages[i].src), SortKey(pages[j].src))

\* the photos of a folder by what the files are, not by what the filter finds
PhotosIn(folder) == {join(folder, fn) : fn \in dirs[folder] \cap (PhotoPool \cup HashQPool)}

RECURSIVE SumPhotos(_)
SumPhotos(i) ==
    IF i = 0 THEN 0
    ELSE Cardinality(PhotosIn(input_folders[i].folder)) + SumPhotos(i - 1)

C2_Complete ==
    pc = "done" =>
       /\ output_pdf.exists
       /\ output_pdf.pages = pages
       /\ Len(pages) = Len(input_folders) + SumPhotos(Len(input_folders))
       /\ \A c \in 1..Len(input_folders) :
             /\ \E i \in 1..Len(pages) :
                   /\ pages[i].kind = "chapter" /\ pages[i].chapter = c
                   /\ \A j \in 1..Len(pages) :
                         (j # i /\ pages[j].chapter = c) => (pages[j].kind = "photo" /\ i < j)
             /\ \A q \in PhotosIn(input_folders[c].folder) :
                   Cardinality({i \in PhotoPagesOf(c) : pages[i].src = q}) = 1
             /\ \A i \in PhotoPagesOf(c) : pages[i].src \in PhotosIn(input_folders[c].folder)

IsPrefix(a, b) == Len(a) <= Len(b) /\ SubSeq(b, 1, Len(a)) = a

\* C2: a build that completes has added one divider page per chapter, before
\* that chapter's photo pages, and exactly one photo page for every eligible
\* photo of every chapter; the page count is chapters + photos; a step only
\* ever appends to the pages.
C2_OnePagePerPhoto == [](C2_Complete) /\ [][IsPrefix(pages, pages')]_vars

\* a finished book whose folder also held an entry that is no photo
C2_Witness ==
    /\ pc = "done"
    /\ Len(pages) >= 4
    /\ dirs[FolderP] \ PhotoPool # {}
    /\ Cardinality(dirs[FolderP] \cap PhotoPool) = 2

Scheduled == IF pc = "build" /\ pos < Len(images_sorted)
             THEN {replace_backslash(images_sorted[pos + 1])} ELSE {}

\* C3: a scheduled photo without a plan entry ends the build with a KeyError
\* that names the photo and the plan file; no page is ever added for a photo
\* the plan has no entry for, the rotation of a page is the plan's, and the
\* run that failed wrote no document.
C3_MissingEntryAborts ==
    /\ \A i \in 1..Len(pages) :
          pages[i].kind = "photo" =>
             /\ replace_backslash(pages[i].src) \in DOMAIN rotations
             /\ pages[i].art.deg = rotations[replace_backslash(pages[i].src)]
    /\ err.kind = "KeyError" =>
          /\ pc = "error"
          /\ ~output_pdf.exists
          /\ err.plan = OutputPaths.plan
          /\ err.path \notin DOMAIN rotations
          /\ pos < Len(images_sorted)
          /\ err.path = replace_backslash(images_sorted[pos + 1])
    /\ pc = "done" =>
          \A c \in 1..Len(input_folders) :
             \A q \in PhotosIn(input_folders[c].folder) :
                replace_backslash(q) \in DOMAIN rotations

\* the human removed the entry of the second photo: the build stops after the
\* first photo's page
C3_Witness ==
    /\ edits = 1
    /\ pc = "error"
    /\ err.kind = "KeyError"
    /\ Len(pages) = 2
    /\ pos = 1

LabelOf(text) == CHOOSE l \in LinePool : l.text = text

GoodKeys == {LabelOf(plan.lines[k]).key :
                k \in {i \in 1..Len(plan.lines) : LabelOf(plan.lines[i]).class = "good"}}

LastDeg(key) ==
    LET at == {k \in 1..Len(plan.lines) :
                  LabelOf(plan.lines[k]).class = "good" /\ LabelOf(plan.lines[k]).key = key}
        last == CHOOSE k \in at : \A j \in at : j <= k
    IN  LabelOf(plan.lines[last]).deg

\* C4: decoding fails as a whole, with no mapping at all, when an entry line
\* at any position carries degrees that are no integer of {0, 90, 180, 270};
\* otherwise it succeeds and every well-formed line gives the entry keyed by its
\* trimmed path with '/' for '\', the last line of a path deciding its degrees.
C4_DecodeValidates ==
    pc # "idle" =>
       IF \E k \in 1..Len(plan.lines) : LabelOf(plan.lines[k]).class = "bad"
       THEN pc = "error" /\ err.kind = "ValueError" /\ rotations = EmptyMap
       ELSE /\ err.kind # "ValueError"
            /\ DOMAIN rotations = GoodKeys
            /\ \A key \in GoodKeys : rotations[key] = LastDeg(key)

\* a plan whose first line is well formed and whose second line says 45
C4_Witness ==
    /\ pc = "error"
    /\ err.kind = "ValueError"
    /\ Len(plan.lines) = 2
    /\ LabelOf(plan.lines[1]).class = "good"
    /\ plan.lines[2] = Entry(p_a_jpg, Separator, << "4", "5" >>)

\* C5: decoding the plan as the planning pass wrote it gives the mapping whose
\* keys are exactly the written paths and whose values are the suggested degrees.
C5_RoundTrip ==
    (plan.exists /\ edits = 0 /\ pc # "idle") =>
       /\ err.kind # "ValueError"
       /\ DOMAIN rotations = {replace_backslash(all_items[i].path) : i \in 1..Len(all_items)}
       /\ \A i \in 1..Len(all_items) :
             rotations[replace_backslash(all_items[i].path)]
                = suggested_rotation_degrees(all_items[i].path)

\* the part of the planning pass's list that belongs to chapter c
PlanOrder(c) ==
    LET before == SumPhotos(c - 1)
        n == Cardinality(PhotosIn(input_folders[c].folder))
    IN  [k \in 1..n |-> all_items[before + k].path]

\* C6: with the folders unchanged and the plan unedited the build pass sorts
\* every chapter into the order of the planning pass and finds every key it
\* looks up in the decoded plan: it never reports a missing rotation entry.
C6_BuildResolvesPlan ==
    (plan.exists /\ edits = 0) =>
       /\ err.kind # "KeyError"
       /\ (pc = "build" /\ chapter >= 1) => images_sorted = PlanOrder(chapter)

\* C7: the sorted photo sequence of a folder is the same for every order in
\* which os.listdir may return the entries.
C7_OrderStable ==
    (pc = "build" /\ chapter >= 1) =>
       \A l \in Listings(dirs[input_folders[chapter].folder]) :
          sorted(collect_images(input_folders[chapter].folder, l)).list = images_sorted

\* C8: a cache call derives from the source if and only if no file of the
\* derived name exists when it is called: on a hit it returns the stored size
\* (the size the previous identical call returned) without opening the source
\* or writing, whatever has become of the source; on a miss it opens the source
\* and, unless that fails, writes the file.
C8_ReuseIffExists ==
    [][ret'.n # ret.n =>
          LET before == IF ret'.kind = "photo" THEN resized ELSE map_cache
              after == IF ret'.kind = "photo" THEN resized' ELSE map_cache'
              hit == ret'.path \in DOMAIN before
          IN  /\ hit => /\ ret'.ok /\ ~ret'.opened /\ ~ret'.wrote
                        /\ after = before
                        /\ ret'.w = before[ret'.path].w
                        /\ ret'.h = before[ret'.path].h
              /\ ~hit => /\ ret'.opened
                         /\ ret'.ok => (ret'.wrote /\ ret'.path \in DOMAIN after)
                         /\ ~ret'.ok => after = before
              /\ (hit /\ ret.ok /\ ret.kind = ret'.kind /\ ret.src = ret'.src
                      /\ ret.deg = ret'.deg)
                 => (ret'.path = ret.path /\ ret'.w = ret.w /\ ret'.h = ret.h)
    ]_vars

\* the second of two identical calls, made after the source was deleted
C8_Witness ==
    /\ ret.n = 2
    /\ ret.ok
    /\ ~ret.opened
    /\ ~ret.wrote
    /\ ret.src \notin DOMAIN disk

\* C9: every requested (source path, rotation, kind) has a cache file of its
\* own: the file named for a request holds the artifact of that source and
\* rotation, never the one of another combination.
C9_OneFilePerCombination ==
    (ret.n > 0 /\ ret.ok) =>
       LET cache == IF ret.kind = "photo" THEN resized ELSE map_cache
       IN  ret.path \in DOMAIN cache =>
              (cache[ret.path].src = ret.src /\ cache[ret.path].deg = ret.deg)

\* C10: a newly written artifact fits its envelope (photos 1654 x 2338, maps
\* 1406 x 374 pixels) and is in neither dimension larger than the source after
\* orientation correction and the requested rotation.
C10_FitsEnvelope ==
    ret.wrote =>
       LET f == disk[ret.src]
           swapped == (f.orient \in 5..8) # (ret.deg \in {90, 270})
           sw == IF swapped THEN f.h ELSE f.w
           sh == IF swapped THEN f.w ELSE f.h
           cache == IF ret.kind = "photo" THEN resized ELSE map_cache
       IN  /\ ret.w >= 1 /\ ret.h >= 1
           /\ ret.w <= (IF ret.kind = "photo" THEN 1654 ELSE 1406)
           /\ ret.h <= (IF ret.kind = "photo" THEN 2338 ELSE 374)
           /\ ret.w <= sw /\ ret.h <= sh
           /\ cache[ret.path].w = ret.w /\ cache[ret.path].h = ret.h

\* a map turned by a quarter and scaled down to the full height of its envelope
C10_Witness ==
    /\ ret.wrote
    /\ ret.kind = "map"
    /\ ret.deg = 270
    /\ ret.h = 374
    /\ ret.w < 1406
    /\ ret.src_h > 374

\* C11: a source that, after orientation correction and the requested rotation
\* (width and height swapped for 90 and 270 degrees, kept for 0 and 180), fits
\* its envelope in both dimensions is written with exactly those dimensions.
C11_NoUpscale ==
    ret.wrote =>
       LET f == disk[ret.src]
           swapped == (f.orient \in 5..8) # (ret.deg \in {90, 270})
           sw == IF swapped THEN f.h ELSE f.w
           sh == IF swapped THEN f.w ELSE f.h
           cache == IF ret.kind = "photo" THEN resized ELSE map_cache
       IN  (/\ sw <= (IF ret.kind = "photo" THEN 1654 ELSE 1406)
            /\ sh <= (IF ret.kind = "photo" THEN 2338 ELSE 374))
           => /\ ret.w = sw /\ ret.h = sh
              /\ cache[ret.path].w = sw /\ cache[ret.path].h = sh

\* an upright 374 x 1406 map turned by a quarter fills its envelope exactly
C11_Witness ==
    /\ ret.wrote
    /\ ret.kind = "map"
    /\ ret.deg = 90
    /\ disk[ret.src].orient = 1
    /\ disk[ret.src].w = 374
    /\ disk[ret.src].h = 1406
    /\ ret.w = 1406
    /\ ret.h = 374

\* what the names of the map folder are to the photo that was looked up
Looked == CHOOSE photo \in MatchPhotos : photo.path = ret.src

Maps == {m \in MatchPool : m.fn \in gps_folder.names}

\* C12 (as amended): in stem_contains mode, whenever the map folder holds an
\* image file (.png, .jpg, .jpeg) whose lower-cased name contains the token
\* '__<photo-stem>__map_', the lookup returns an image file containing that
\* token, for every order of the listings, and never one that contains the stem
\* only loosely; with maps for img_1 and img_10 present, img_1 gets its own map.
C12_TokenBeforeLoose ==
    (ret.kind = "find" /\ gps_match = "stem_contains"
        /\ \E m \in Maps : m.image /\ Looked.stem \in m.token)
    => /\ ret.ok
       /\ \E m \in Maps : m.fn = ret.path /\ m.image /\ Looked.stem \in m.token

\* img_1 looked up in a folder with the maps of img_1 and of img_10 and a name
\* that contains img_1 loosely
C12_Witness ==
    /\ ret.kind = "find"
    /\ gps_match = "stem_contains"
    /\ Looked.stem = "img_1"
    /\ Cardinality(gps_folder.names) = 3
    /\ \E m \in Maps : "img_1" \in m.token /\ m.image /\ m.fn = ret.path
    /\ \E m \in Maps : "img_10" \in m.token
    /\ \E m \in Maps : m.token = {} /\ "img_1" \in m.loose

\* C12 as stated: whenever the map folder holds any file whose lower-cased name
\* contains the token, the lookup returns a file containing the token.
C12_AnyFileWithToken ==
    (ret.kind = "find" /\ gps_match = "stem_contains"
        /\ \E m \in Maps : Looked.stem \in m.token)
    => /\ ret.ok
       /\ \E m \in Maps : m.fn = ret.path /\ Looked.stem \in m.token

\* C13: in mode exact the lookup returns a map file only if that file's own
\* stem (lower-cased, extension stripped) equals the photo's stem; when no file
\* of the map folder has that stem it returns no match.
C13_ExactOnlyOwnStem ==
    (ret.kind = "find" /\ gps_match = "exact") =>
       /\ ret.ok => \E m \in Maps : m.fn = ret.path /\ Looked.stem \in m.exact
       /\ (\A m \in Maps : Looked.stem \notin m.exact) => ~ret.ok

\* C14: layout non-distortion: every placed photo and every placed map has the
\* aspect ratio of its raster, placed_width * h = placed_height * w, one scale
\* factor on both axes
PhotoPages == {i \in 1..Len(pages) : pages[i].kind = "photo"}

C14_SameAspect ==
    \A i \in PhotoPages :
        LET pg == pages[i]
        IN  /\ QMul(pg.rect.w, Frac(pg.ph, 1)) = QMul(pg.rect.h, Frac(pg.pw, 1))
            /\ pg.rect.w = QMul(Frac(254 * pg.pw, 3000), pg.rect.scale)
            /\ pg.rect.h = QMul(Frac(254 * pg.ph, 3000), pg.rect.scale)
            /\ pg.has_map =>
                  /\ QMul(pg.map_rect.w, Frac(pg.mh, 1)) = QMul(pg.map_rect.h, Frac(pg.mw, 1))
                  /\ pg.map_rect.w = QMul(Frac(254 * pg.mw, 3000), pg.map_rect.scale)
                  /\ pg.map_rect.h = QMul(Frac(254 * pg.mh, 3000), pg.map_rect.scale)

\* a narrow tall photo limited by the band height above a wide map limited by the width
C14_Witness ==
    \E i \in PhotoPages :
        /\ pages[i].pw = 100 /\ pages[i].ph = 2338
        /\ pages[i].rect.h = Frac(photo_area_h, 1)
        /\ pages[i].has_map /\ pages[i].mw = 1406 /\ pages[i].mh = 1
        /\ pages[i].map_rect.w = Frac(usable_w, 1)

\* C15: the compositor never upscales beyond print resolution: the scale factor
\* applied to a cached photo or map (scale_photo, scale_map) is at most 1
C15_ScaleAtMostOne ==
    \A i \in PhotoPages :
        /\ ~QLess(Frac(1, 1), pages[i].rect.scale)
        /\ pages[i].has_map => ~QLess(Frac(1, 1), pages[i].map_rect.scale)

\* the rectangle r of a px_w x px_h raster fits a band of the usable width and height
\* band_h and reaches its full width or its full height; the raster is enlarged
\* exactly when it is, at 300 dpi, both narrower and lower than the band
FitsBand(r, px_w, px_h, band_h) ==
    /\ ~QLess(Frac(usable_w, 1), r.w)
    /\ ~QLess(Frac(band_h, 1), r.h)
    /\ r.w = Frac(usable_w, 1) \/ r.h = Frac(band_h, 1)
    /\ QLess(Frac(1, 1), r.scale) <=>
          /\ QLess(Frac(254 * px_w, 3000), Frac(usable_w, 1))
          /\ QLess(Frac(254 * px_h, 3000), Frac(band_h, 1))

\* C15 as it holds: every placed photo and map is scaled, up or down, to fit its band
C15_ScaledToBand ==
    \A i \in PhotoPages :
        /\ FitsBand(pages[i].rect, pages[i].pw, pages[i].ph, photo_area_h)
        /\ pages[i].has_map =>
              FitsBand(pages[i].map_rect, pages[i].mw, pages[i].mh, map_area_h)

\* on the shipped geometry a cached photo of the full envelope width is enlarged,
\* and so is the map above it
C15_Witness ==
    \E i \in PhotoPages :
        /\ geometry = PageGeometry
        /\ pages[i].pw = 1654
        /\ QLess(Frac(1, 1), pages[i].rect.scale)
        /\ pages[i].has_map /\ QLess(Frac(1, 1), pages[i].map_rect.scale)

\* on a page with a 51 mm photo band the same photo is reduced
C15_Reduced ==
    \E i \in PhotoPages :
        photo_area_h = 51 /\ pages[i].pw = 1654 /\ QLess(pages[i].rect.scale, Frac(1, 1))

\* C16: a page geometry whose photo band (usable height minus map band minus
\* gutter) is not above the 50 mm threshold is rejected with a fatal layout error,
\* once, at startup: before any divider or photo page is added and before any
\* cache artifact is written; a geometry above the threshold never raises it
C16_TightLayoutRejected ==
    /\ photo_area_h <= 50 =>
          /\ pc \in {"idle", "error"}
          /\ pages = << >> /\ chapter = 0 /\ images_sorted = << >>
          /\ resized = EmptyMap /\ map_cache = EmptyMap /\ pdf_temp = {}
          /\ ~output_pdf.exists
          /\ ret.n = 0
          /\ (pc = "error" /\ plan.exists /\ parse_rotation_plan(plan.lines).ok)
                => err.kind = "RuntimeError"
    /\ err.kind = "RuntimeError" => photo_area_h <= 50 /\ pages = << >>

\* a plan listing photos, a photo band of exactly 50 mm, the build stopped
C16_Witness ==
    /\ photo_area_h = 50
    /\ all_items # << >>
    /\ pc = "error" /\ err.kind = "RuntimeError"

\* C17: when rotation_plan.txt does not exist as the build pass starts, the build
\* fails with an error naming the expected plan path, before it lists a source
\* folder, writes a cache artifact, adds a page or writes the document
C17_MissingPlanAborts ==
    /\ (pc # "idle" /\ ~plan.exists) => (pc = "error" /\ err.kind = "FileNotFoundError")
    /\ err.kind = "FileNotFoundError" =>
          /\ ~plan.exists
          /\ err.path = OutputPaths.plan
          /\ chapter = 0 /\ images_sorted = << >> /\ pages = << >>
          /\ resized = EmptyMap /\ map_cache = EmptyMap /\ pdf_temp = {}
          /\ ret.n = 0
          /\ ~output_pdf.exists

\* the build pass run before the planning pass on a folder that holds photos
C17_Witness ==
    /\ pc = "error" /\ err.kind = "FileNotFoundError"
    /\ Len(input_folders) = 2
    /\ \E fn \in dirs[FolderP] : Eligible(FolderP, fn)

\* the map files the lookup can return for a photo, over the listing orders
MatchedMaps(src_path) ==
    {join(FolderG, g.fn) :
        g \in {r \in {find_corresponding_gps_image(src_path, gps_folder, l1, l2, gps_match) :
                        l1, l2 \in Listings(gps_folder.names)} : r.found}}

\* the photo the loop is at cannot be read, or one of its matched maps cannot
Unreadable ==
    IF pc = "build" /\ pos < Len(images_sorted)
    THEN LET src_path == images_sorted[pos + 1]
         IN  IF ~disk[src_path].readable THEN {src_path}
             ELSE {m \in MatchedMaps(src_path) : isfile(m) /\ ~disk[m].readable}
    ELSE {}

\* the pages of a book are whole: the photo of every page was read, a page
\* without map has no matched map file, a page with map shows a map that was read
PagesWhole ==
    \A i \in PhotoPages :
        /\ disk[pages[i].src].readable
        /\ IF pages[i].has_map
           THEN pages[i].map_art.src \in MatchedMaps(pages[i].src)
                /\ disk[pages[i].map_art.src].readable
           ELSE \A m \in MatchedMaps(pages[i].src) : ~isfile(m)

C18_PhotoWitness ==
    /\ pc = "error" /\ err.kind = "OSError"
    /\ err.path = join(FolderP, u_jpg)

\* the placement rectangles of a sequence of pages
Rects(pgs) == [i \in 1..Len(pgs) |-> << pgs[i].rect, pgs[i].map_rect >>]

\* C19: determinism of the build: a second run on the same configuration,
\* folders and plan, from the cache of the first run or from an empty cache, ends
\* with the same set of cache file names and the same sequence of placement
\* rectangles
C19_SameBook ==
    (earlier.n = 1 /\ pc = "done") =>
        /\ Rects(pages) = Rects(earlier.pages)
        /\ DOMAIN resized \cup DOMAIN map_cache = earlier.names

\* a <= b
QLeq(a, b) == ~QLess(b, a)

\* the rectangle r lies inside the band that spans the usable width from band_top
\* down over band_h, with equal space left and right and equal space above and below
CentredInBand(r, band_top, band_h) ==
    LET left == Frac(geometry.margin_x, 1)
        right == Frac(geometry.margin_x + usable_w, 1)
        top == Frac(band_top, 1)
        bottom == Frac(band_top + band_h, 1)
    IN  /\ QLeq(left, r.x) /\ QLeq(QAdd(r.x, r.w), right)
        /\ QLeq(top, r.y) /\ QLeq(QAdd(r.y, r.h), bottom)
        /\ QSub(r.x, left) = QSub(right, QAdd(r.x, r.w))
        /\ QSub(r.y, top) = QSub(bottom, QAdd(r.y, r.h))

\* C20: on every photo page the photo rectangle lies inside the photo band (below
\* margin_y + map band + gutter) and is centred in it on both axes; a map, when
\* present, lies inside the map band at the top and is centred in it; the two never
\* overlap and neither leaves the page margins; a page without map carries the
\* photo rectangle only
C20_CentredInBands ==
    \A i \in PhotoPages :
        LET pg == pages[i]
            photo_top == geometry.margin_y + map_area_h + geometry.gutter_y
        IN  /\ CentredInBand(pg.rect, photo_top, photo_area_h)
            /\ QLeq(QAdd(pg.rect.y, pg.rect.h), Frac(geometry.page_h - geometry.margin_y, 1))
            /\ QLeq(QAdd(pg.rect.x, pg.rect.w), Frac(geometry.page_w - geometry.margin_x, 1))
            /\ IF pg.has_map
               THEN /\ CentredInBand(pg.map_rect, geometry.margin_y, map_area_h)
                    /\ QLess(QAdd(pg.map_rect.y, pg.map_rect.h), pg.rect.y)
               ELSE pg.map_rect = NoRect

\* a book with a page that has a map and a page that has none, on a retuned page
C20_Witness ==
    /\ geometry # PageGeometry
    /\ \E i, j \in PhotoPages :
          /\ pages[i].has_map /\ pages[i].map_rect.w = Frac(usable_w, 1)
          /\ ~pages[j].has_map /\ pages[j].rect # NoRect

\* the cache files of both cache folders
Cached == DOMAIN resized \cup DOMAIN map_cache

\* C21: when a build aborts at a photo (plan entry missing, source unreadable)
\* the artifacts written for the pages before it stay in the cache; the run
\* started after the repair reuses every one of them, derives only what is not
\* cached yet, and a run that completes has the full page sequence, which begins
\* with the pages of the aborted run
C21_ResumeReuses ==
    /\ [](/\ \A i \in PhotoPages :
                /\ pages[i].photo \in DOMAIN resized
                /\ pages[i].has_map => pages[i].map \in DOMAIN map_cache
          /\ earlier.n = 1 =>
                /\ earlier.names \subseteq Cached
                /\ pc = "done" =>
                      /\ IsPrefix(earlier.pages, pages)
                      /\ Len(pages) = 1 + Cardinality(PhotosIn(FolderP)))
    /\ [][/\ pc = "error" => (resized' = resized /\ map_cache' = map_cache)
          /\ (earlier.n = 1 /\ ret'.n > ret.n) =>
                (IF ret'.path \in Cached
                 THEN ret'.ok /\ ~ret'.opened /\ ~ret'.wrote
                 ELSE ret'.opened /\ (ret'.ok => ret'.wrote))]_vars

\* the build stopped at the second photo, was repaired, and the second run
\* finished: it reused the first photo's artifact and derived the second's
C21_Witness ==
    /\ earlier.n = 1 /\ Len(earlier.pages) = 2
    /\ pc = "done" /\ Len(pages) = 3
    /\ pages[2].photo \in earlier.names
    /\ pages[3].photo \notin earlier.names

\* the capture timestamp of a file: the first tag that is set and parses, a
\* corrupt file having none; 0 when there is none
Capture(q) ==
    LET tags == IF disk[q].readable THEN disk[q].exif ELSE << NoDate, NoDate, NoDate >>
    IN  IF tags[1] > 0 THEN tags[1]
        ELSE IF tags[2] > 0 THEN tags[2]
        ELSE IF tags[3] > 0 THEN tags[3]
        ELSE 0

\* every file has a timestamp: a capture timestamp or a readable modification time
Timed(qs) == \A q \in qs : Capture(q) > 0 \/ disk[q].mtime > 0

Primary(q) == IF Capture(q) > 0 THEN Capture(q) ELSE disk[q].mtime

\* seq holds every file of qs once, in the order of (primary key, lower-cased name)
OrderedByKey(seq, qs) ==
    /\ Len(seq) = Cardinality(qs)
    /\ {seq[i] : i \in 1..Len(seq)} = qs
    /\ \A i \in 1..(Len(seq) - 1) :
          \/ Primary(seq[i]) < Primary(seq[i + 1])
          \/ /\ Primary(seq[i]) = Primary(seq[i + 1])
             /\ StrLess(lower(basename(seq[i])), lower(basename(seq[i + 1])))

\* C22: the primary sort key is the first of DateTimeOriginal, DateTimeDigitized,
\* DateTime that is present and parses (an unparsable tag falling through), else
\* the modification time, also for a corrupt file, which is never dropped; ties
\* are broken by the lower-cased basename; in both passes
C22_SortKey ==
    Timed(PhotosIn(FolderP)) =>
        /\ plan.exists =>
              OrderedByKey([i \in 1..Len(all_items) |-> all_items[i].path], PhotosIn(FolderP))
        /\ (pc \in {"build", "done", "error"} /\ chapter = 1) =>
              OrderedByKey(images_sorted, PhotosIn(FolderP))
        /\ err.kind # "TypeError"

\* b.png with an unparsable DateTimeOriginal sorts by its DateTimeDigitized (5)
\* before the corrupt a.jpg, which sorts by its modification time (9)
C22_Witness ==
    /\ disk[join(FolderP, b_png)].exif = << Unparsable, 5, 2 >>
    /\ disk[join(FolderP, b_png)].readable
    /\ ~disk[join(FolderP, a_jpg)].readable
    /\ disk[join(FolderP, a_jpg)].exif = << 5, NoDate, NoDate >>
    /\ disk[join(FolderP, a_jpg)].mtime = 9
    /\ chapter = 1
    /\ images_sorted = << join(FolderP, b_png), join(FolderP, a_jpg) >>

\* the photos of the configured folders
BookPhotos == UNION {PhotosIn(input_folders[c].folder) : c \in 1..Len(input_folders)}

\* the upright size of a photo: width and height change places under the
\* orientation tags 5 to 8
Upright(q) ==
    IF disk[q].orient \in {5, 6, 7, 8} THEN [w |-> disk[q].h, h |-> disk[q].w]
    ELSE [w |-> disk[q].w, h |-> disk[q].h]

\* the lines of the plan that carry an entry for q
EntriesOf(q) ==
    {k \in 1..Len(plan.lines) :
        startswith(plan.lines[k], replace_backslash(q) \o Separator)}

Generated ==
    (IF plan.exists THEN {OutputPaths.plan} ELSE {})
    \cup (IF output_pdf.exists THEN {OutputPaths.pdf} ELSE {})
    \cup {join(OutputPaths.resized, n) : n \in DOMAIN resized}
    \cup {join(OutputPaths.maps, n) : n \in DOMAIN map_cache}
    \cup {join(OutputPaths.temp, n) : n \in pdf_temp}

\* the folders the configuration reads from: the chapters' folders and the map folder
ReadFolders == {input_folders[i].folder : i \in DOMAIN input_folders} \cup {FolderG}

Apart(a, b) == a # b /\ ~InFolder(a, b) /\ ~InFolder(b, a)

\* a written file that a later collect_images of folder d would take for a photo
Collectable(f, d) ==
    /\ f = join(d, basename(f))
    /\ \E e \in VALID_EXTS : endswith(lower(basename(f)), e)
    /\ ~Contains(lower(basename(f)), Processed)
    /\ ~startswith(lower(basename(f)), Pdfprep)

C25_OwnArtifact ==
    \A i \in PhotoPages :
        /\ pages[i].art.src = pages[i].src
        /\ pages[i].art.deg = rotations[replace_backslash(pages[i].src)]



\* ---------------------------------------------------------------- C26
\* C26: sorting a chapter's photos never fails on key comparison, in either
\* pass, also when one file's key is a timestamp and another's is the
\* lower-cased basename because its modification time cannot be read
C26_SortNeverFails ==
    \A p, q \in PhotosIn(FolderP) :
        get_image_sort_key(p).t # get_image_sort_key(q).t => err.kind # "TypeError"



\* ---------------------------------------------------------------- C27
Img10Map == << "t", "_", "_" >> \o Img10 \o MapToken \o MapTail \o Png

\* the returned name carries the token of a stem other than the photo's
Foreign == \E m \in Maps : m.fn = ret.path /\ m.token \ {Looked.stem} # {}

Exported == CHOOSE x \in ExportPool : join(FolderP, x.fn) = ret.src

\* name is a map the exporter writes for the photo looked up
WrittenFor(name) ==
    LET exif == disk[ret.src].exif
        ts == IF exif[1] > 0 THEN exif[1] ELSE exif[3]
    IN  \E size \in {<< << "8" >>, << "2" >> >>,
                      << << "7", "0", "0" >>, << "1", "0", "0", "0" >> >>} :
           name = str(ts) \o << "_", "_" >> \o Exported.safe \o << "_", "_", "m", "a", "p", "_" >>
                     \o size[1] \o << "x" >> \o size[2] \o << ".", "p", "n", "g" >>

\* C28: for every photo for which the exporter wrote a map named
\* '<timestamp>__<safe_stem(photo)>__map_<W>x<H>.png', the matcher in
\* stem_contains mode, given that photo and the exporter's folder, returns a map
\* written for that same photo, also for stems with characters safe_stem
\* replaces by '_' and for upper-case stems
C28_RoundTrip ==
    (ret.kind = "find" /\ \E name \in gps_folder.names : WrittenFor(name)) =>
        (ret.ok /\ WrittenFor(ret.path))



\* ---------------------------------------------------------------- C29
\* a line that is neither blank nor a comment and has no '|'
Barless(line) ==
    LET t == strip(line) IN t # << >> /\ Head(t) # "#" /\ ~\E i \in DOMAIN t : t[i] = "|"

RECURSIVE WithoutBarless(_)
WithoutBarless(lines) ==
    IF lines = << >> THEN << >>
    ELSE IF Barless(Head(lines)) THEN WithoutBarless(Tail(lines))
    ELSE << Head(lines) >> \o WithoutBarless(Tail(lines))

\* the photos of the planning pass that the plan no longer has an entry line for
Unplanned ==
    {all_items[i].path : i \in DOMAIN all_items} \
        {replace_backslash(strip(SubSeq(plan.lines[k], 1, rfind(plan.lines[k], "|") - 1))) :
            k \in {j \in DOMAIN plan.lines : IsEntryLine(plan.lines[j])}}

\* C29: a non-blank, non-comment line without '|' counts as absent: decoding
\* gives what it gives without the line and raises nothing, the build starts,
\* and the line's photo, if it gets no page, ends the build with the
\* missing-entry error naming it
C29_BarlessLineSkipped ==
    (plan.exists /\ \E k \in DOMAIN plan.lines : Barless(plan.lines[k])) =>
        /\ parse_rotation_plan(plan.lines) = parse_rotation_plan(WithoutBarless(plan.lines))
        /\ parse_rotation_plan(plan.lines).ok
        /\ err.kind \notin {"ValueError", "FileNotFoundError"}
        /\ pc \in {"build", "done", "error"} => rotations = parse_rotation_plan(plan.lines).mapping
        /\ \A i \in PhotoPages : replace_backslash(pages[i].src) \notin Unplanned
        /\ pc = "done" => Unplanned = {}
        /\ pc = "error" => (err.kind = "KeyError" => err.path \in Unplanned)

\* the build stopped at the photo whose line lost its bar, after decoding the
\* rest of the plan
C29_Witness ==
    /\ plan.exists
    /\ \E k \in DOMAIN plan.lines : Barless(plan.lines[k])
    /\ pc = "error"
    /\ err.kind = "KeyError"
    /\ err.path \in Unplanned
    /\ rotations # EmptyMap



\* ---------------------------------------------------------------- C30
\* every row is good exactly when it has a copy path
GoodIffCopy ==
    \A i \in DOMAIN images_table :
        images_table[i].good = 1 <=> images_table[i].good_copy_path # NoPath

\* a rescan leaves good and good_copy_path of every existing row as they were
RescanKeepsGood ==
    ret'.kind = "scan" =>
        \A i \in DOMAIN images_table :
            /\ i \in DOMAIN images_table'
            /\ images_table'[i].path = images_table[i].path
            /\ images_table'[i].good = images_table[i].good
            /\ images_table'[i].good_copy_path = images_table[i].good_copy_path

\* unmarking image ret'.n removes at most the file at its own copy path, no
\* original of any row, and not the copy of another row
UnmarkRemovesOwnCopy ==
    (ret'.kind = "unmark" /\ images_table' # images_table) =>
        LET removed == (DOMAIN disk) \ (DOMAIN disk')
        IN  /\ removed \subseteq {images_table[ret'.n].good_copy_path}
            /\ \A j \in DOMAIN images_table : images_table[j].path \notin removed
            /\ \A j \in (DOMAIN images_table) \ {ret'.n} :
                   images_table[j].good_copy_path \notin removed

\* C30: in the review app, after any sequence of toggle_good and upsert_scan
\* requests every row has good = 1 exactly when good_copy_path is set; a rescan
\* never changes good or good_copy_path of an existing row; unmarking an image
\* removes only the file at its own good_copy_path, never the original at path
\* and never the copy of another image
C30_ReviewInvariants ==
    /\ []GoodIffCopy
    /\ [][RescanKeepsGood]_vars
    /\ [][UnmarkRemovesOwnCopy]_vars

C30_GoodIffCopy == []GoodIffCopy

C30_RescanKeepsGood == [][RescanKeepsGood]_vars

C30_UnmarkRemovesOwnCopy == [][UnmarkRemovesOwnCopy]_vars


============================================================================
